---- MODULE Spec2Model ----
(***************************************************************************)
(* A model of the mcache Bloom filter: the location scheme, the three bit  *)
(* storage backends (in-process bitset under a mutex, and the two Redis    *)
(* bindings that run one Lua script per operation), and the membership     *)
(* engine on top of them.                                                  *)
(*                                                                         *)
(* Unsigned 64-bit values are kept at their full width.  A value is a      *)
(* tuple of four 16-bit limbs, least significant first, so that            *)
(* <<a, b, c, d>> stands for a + b*2^16 + c*2^32 + d*2^48.                 *)
(***************************************************************************)
EXTENDS Integers, Sequences, FiniteSets, TLC

\* The radix of a limb, 2^16.
Base == 256 * 256

Zero64 == <<0, 0, 0, 0>>

\* A small natural number (below 2^16) as a 64-bit value.
U64(n) == <<n, 0, 0, 0>>

\* a < b on 64-bit values.
Lt64(a, b) ==
    \/ a[4] < b[4]
    \/ a[4] = b[4] /\ a[3] < b[3]
    \/ a[4] = b[4] /\ a[3] = b[3] /\ a[2] < b[2]
    \/ a[4] = b[4] /\ a[3] = b[3] /\ a[2] = b[2] /\ a[1] < b[1]

\* Go's + on uint64: the sum modulo 2^64, limb by limb with the carry c.
RECURSIVE AddFrom(_, _, _, _)
AddLimb(a, b, i, s) == <<s % Base>> \o AddFrom(a, b, i + 1, s \div Base)
AddFrom(a, b, i, c) == IF i > 4 THEN <<>> ELSE AddLimb(a, b, i, a[i] + b[i] + c)
Add64(a, b) == AddFrom(a, b, 1, 0)

\* Go's - on uint64: the difference modulo 2^64, limb by limb with the borrow c.
RECURSIVE SubFrom(_, _, _, _)
SubLimb(a, b, i, d) == <<d % Base>> \o SubFrom(a, b, i + 1, IF d < 0 THEN 1 ELSE 0)
SubFrom(a, b, i, c) == IF i > 4 THEN <<>> ELSE SubLimb(a, b, i, a[i] - b[i] - c)
Sub64(a, b) == SubFrom(a, b, 1, 0)

\* Go's * on uint64 for a small left factor n (n < 2^15): n*a modulo 2^64.
RECURSIVE MulFrom(_, _, _, _)
MulLimb(n, a, i, s) == <<s % Base>> \o MulFrom(n, a, i + 1, s \div Base)
MulFrom(n, a, i, c) == IF i > 4 THEN <<>> ELSE MulLimb(n, a, i, n * a[i] + c)
MulSmall64(n, a) == MulFrom(n, a, 1, 0)

\* 2*a + bit modulo 2^64, and the bit shifted out.
Shl1(a, bit) == Add64(Add64(a, a), U64(bit))
ShlOut(a) == a[4] \div (Base \div 2)

\* 2^n.
RECURSIVE Pow2(_)
Pow2(n) == IF n = 0 THEN 1 ELSE 2 * Pow2(n - 1)

\* One step of binary long division: shift bit b into the remainder r and
\* reduce it below m.  r < m < 2^64, so 2r + b < 2m and one subtraction is
\* enough; out is the bit shifted out of r and r2 the 64 bits left.
Reduce(out, r2, m) == IF out = 1 \/ ~Lt64(r2, m) THEN Sub64(r2, m) ELSE r2
DivStep(r, b, m) == Reduce(ShlOut(r), Shl1(r, b), m)

\* The bits j..0 of the 16-bit limb x shifted into r, most significant first.
RECURSIVE DivLimb(_, _, _, _)
DivNext(r2, x, j, m) == IF Lt64(r2, m) THEN DivLimb(r2, x, j - 1, m) ELSE r2
DivLimb(r, x, j, m) ==
    IF j < 0 THEN r ELSE DivNext(DivStep(r, (x \div Pow2(j)) % 2, m), x, j, m)

\* a mod m by binary long division, for any 0 < m < 2^64.
ModLong(a, m) ==
    DivLimb(DivLimb(DivLimb(DivLimb(Zero64, a[4], 15, m), a[3], 15, m), a[2], 15, m),
            a[1], 15, m)

\* a mod n for a modulus n below 2^15, limb by limb (Horner).
ModSmall(a, n) ==
    U64((((((((a[4] % n) * Base) + a[3]) % n) * Base + a[2]) % n) * Base + a[1]) % n)

\* Go's % on uint64 (m > 0).
Mod64(a, m) ==
    IF m[2] = 0 /\ m[3] = 0 /\ m[4] = 0 /\ m[1] < Base \div 2
    THEN ModSmall(a, m[1])
    ELSE ModLong(a, m)

\* Go's uint32(x) on a uint64: the low 32 bits.
Uint32(a) == <<a[1], a[2], 0, 0>>

(***************************************************************************)
(* Hash derivation and the location scheme (bloom.go).                     *)
(***************************************************************************)

\* The keys callers use, and the four base hashes of each.  The murmur digest
\* is a fixed function of the key's bytes; the table fixes one HashQuad per
\* key, with values that cover small hashes, hashes above 2^32, a sum of two
\* low halves that reaches 2^32, and a product that passes 2^64.
KeyIds == 1 .. 4

HashTable ==
    <<  << <<0, 0, 0, 0>>,     <<0, 0, 0, 0>>,         <<2, 0, 0, 0>>,     <<1, 0, 0, 0>> >>,
        << <<3, 0, 0, 0>>,     <<4, 0, 0, 0>>,         <<7, 0, 0, 0>>,     <<5, 0, 0, 0>> >>,
        << <<1, 0, 1, 0>>,     <<0, 65535, 3, 1>>,     <<6, 0, 0, 40000>>, <<0, 1, 7, 0>> >>,
        << <<9, 2, 0, 65535>>, <<5, 0, 0, 0>>,         <<1, 1, 1, 1>>,     <<2, 0, 0, 32768>> >> >>

\* Keys past the table get small hashes made of the key's number.
baseHashes(data) ==
    IF data \in KeyIds THEN HashTable[data]
    ELSE <<U64(data), U64(3 * data + 1), U64(data + 2), U64(5 * data)>>

\* location returns the ith hashed location using the four base hash values:
\* h[ii%2] + ii*h[2+(((ii+(ii%2))%4)/2)] in uint64 arithmetic.  h is indexed
\* from 1 here.
location(h, i) ==
    Add64(h[(i % 2) + 1], MulSmall64(i, h[2 + (((i + (i % 2)) % 4) \div 2) + 1]))

\* A bit index that is not reduced modulo the bitset's length.
LocalLocRaw(h, i, m) == location(h, i)

\* The bit index the in-process backend touches for index i:
\* uint(location(h, i) % uint64(l.b.Len())).
LocalLoc(h, i, m) == Mod64(location(h, i), m)

\* The arguments GoredisBloom and RedigoBloom pass to a script: k, m and the
\* four hashes, each converted with uint32(...).
ScriptArgs(k, m, h) ==
    [k |-> k, m |-> m, h |-> <<Uint32(h[1]), Uint32(h[2]), Uint32(h[3]), Uint32(h[4])>>]

\* The bit index a script computes for ii = i-1:
\* (h[(ii%2)+1]+ii*h[3+(((ii+(ii%2))%4)/2)])%m on Lua numbers.  A Lua number
\* is a double; it holds every integer below 2^53 exactly, and the operands
\* are below 2^32 with ii below 2^15, so the sum is the exact integer (no
\* wrap-around) and a%m = a - floor(a/m)*m is the exact remainder.
LuaLoc(args, ii) ==
    Mod64(Add64(args.h[(ii % 2) + 1],
                MulSmall64(ii, args.h[3 + (((ii + (ii % 2)) % 4) \div 2)])),
          args.m)

\* The bit index a remote backend touches for hashes h and index i.
RemoteLoc(h, i, k, m) == LuaLoc(ScriptArgs(k, m, h), i)

(***************************************************************************)
(* Bit storage: what one loop iteration and one whole operation do to a    *)
(* bit array.  A bit array is the set of the indices of its 1 bits.        *)
(***************************************************************************)

\* A floor that yields its second argument.
maxSecond(x, y) == y

\* max(x, y) of bloom.go, on small numbers and on 64-bit values.
max(x, y) == IF x > y THEN x ELSE y
Max64(x, y) == IF Lt64(y, x) THEN x ELSE y

\* The constructors: k and m are forced to be at least 1; the client handle
\* is stored as given.  NewLocal allocates a bitset of max(1, m) zero bits.
NewLocal(m, k) ==
    [backend |-> "local", k |-> max(1, k), m |-> Max64(U64(1), m), handle |-> "none"]
NewGoredis(m, k, client) ==
    [backend |-> "goredis", k |-> max(1, k), m |-> Max64(U64(1), m), handle |-> client]
NewRedisgo(m, k, getConn) ==
    [backend |-> "redigo", k |-> max(1, k), m |-> Max64(U64(1), m), handle |-> getConn]

\* The three backends.
Backends == { "local", "goredis", "redigo" }

\* The filters the model is run on: each backend with m = 5 and k = 3, the
\* in-process backend built from (0, 0) and each backend with m = 2^33, and
\* the remote bindings without a client.
Configs ==
    { NewLocal(U64(5), 3), NewLocal(Zero64, 0), NewLocal(<<0, 0, 2, 0>>, 2),
      NewGoredis(U64(5), 3, "client"), NewGoredis(U64(5), 3, "nil"),
      NewGoredis(<<0, 0, 2, 0>>, 2, "client"),
      NewRedisgo(U64(5), 3, "conn"), NewRedisgo(U64(5), 3, "nil"),
      NewRedisgo(U64(5), 3, "noconn"), NewRedisgo(<<0, 0, 2, 0>>, 2, "conn") }


\* The largest argument n, and the source's rounds (100000) and capacity of
\* concChan (1000), scaled down.
MaxN == 2
Rounds == 3
ConcCap == 2

\* The keys whose bit indices are tabulated: the keys of KeyIds and the keys
\* EstimateFalsePositiveRate makes.
TableKeys == KeyIds \cup (1 .. (MaxN + Rounds + 1))

\* The bit indices of every key under every filter of Configs, computed once:
\* LocalLocs[<<h, m>>][i] = LocalLoc(h, i, m), LuaLocs[args][i] = LuaLoc(args, i).
MaxK == CHOOSE k \in {f.k : f \in Configs} : \A f \in Configs : f.k <= k

LocalLocs ==
    [hm \in {<<baseHashes(x), f.m>> : x \in TableKeys, f \in Configs} |->
        [i \in 0 .. (MaxK - 1) |-> LocalLoc(hm[1], i, hm[2])]]

LuaLocs ==
    [args \in {ScriptArgs(f.k, f.m, baseHashes(x)) : x \in TableKeys, f \in Configs} |->
        [i \in 0 .. (args.k - 1) |-> LuaLoc(args, i)]]

\* LocalLoc and LuaLoc, looked up where they are tabulated.
LocalLocAt(h, i, m) ==
    IF <<h, m>> \in DOMAIN LocalLocs /\ i < MaxK THEN LocalLocs[<<h, m>>][i]
    ELSE LocalLoc(h, i, m)

LuaLocAt(args, ii) ==
    IF args \in DOMAIN LuaLocs THEN LuaLocs[args][ii] ELSE LuaLoc(args, ii)

\* The bit index of filter f for hashes h and index i.
LocOf(f, h, i) ==
    IF f.backend = "local" THEN LocalLocAt(h, i, f.m)
    ELSE LuaLocAt(ScriptArgs(f.k, f.m, h), i)

\* An iteration that sets no bit, and one that flips the bit.
SetStepNone(b, loc) == b
SetStepFlip(b, loc) == IF loc \in b THEN b \ {loc} ELSE b \cup {loc}

\* One iteration of LocalBloom.SetAll: l.b.Set(loc).
SetStep(b, loc) == b \cup {loc}

\* One iteration of LocalBloom.TestAll: TRUE when the loop goes on, FALSE when
\* it unlocks and returns false.
TestStep(b, loc) == loc \in b

\* An iteration whose present is the last bit read alone.
TestAddStepLast(b, loc, present) == loc \in b

\* One iteration of LocalBloom.TestAddAll on the local variable present.
TestAddStep(b, loc, present) == IF loc \notin b THEN FALSE ELSE present

\* A ClearAll that resets no bit.
ClearBitsNone(b) == b

\* LocalBloom.ClearAll: l.b.ClearAll().
ClearBits(b) == {}

\* SETBIT and GETBIT take an offset below 2^32 and fail on any other
\* ("bit offset is not an integer or out of range").
OffsetOK(loc) == loc[3] = 0 /\ loc[4] = 0

\* What a script replies: nothing (a script without return), an integer, or
\* the error of a redis.call that failed, which ends the script with the
\* writes made so far kept.  n is the number of iterations completed.
ScriptEnd(b, kind, val, n) == [bits |-> b, reply |-> [kind |-> kind, val |-> val], n |-> n]

\* LocalBloom.SetAll as a whole, from iteration i on: the bit array it leaves.
RECURSIVE LocalSetAll(_, _, _, _, _)
LocalSetAll(b, h, i, k, m) ==
    IF i >= k THEN b ELSE LocalSetAll(SetStep(b, LocalLocAt(h, i, m)), h, i + 1, k, m)

\* setAllStr from iteration ii on, and its iteration at bit index loc.
RECURSIVE LuaSetAll(_, _, _)
LuaSetAllAt(b, args, ii, loc) ==
    IF ~OffsetOK(loc) THEN ScriptEnd(b, "err", 0, ii)
    ELSE LuaSetAll(SetStep(b, loc), args, ii + 1)
LuaSetAll(b, args, ii) ==
    IF ii >= args.k THEN ScriptEnd(b, "nil", 0, ii)
    ELSE LuaSetAllAt(b, args, ii, LuaLocAt(args, ii))

\* testAllStr from iteration ii on: return 0 at the first 0 bit, 1 at the end.
RECURSIVE LuaTestAll(_, _, _)

\* An iteration that reads no bit, and one that sets the bit it reads.
LuaTestAllSkip(b, args, ii, loc) == LuaTestAll(b, args, ii + 1)
LuaTestAllTouch(b, args, ii, loc) == LuaTestAll(SetStep(b, loc), args, ii + 1)

LuaTestAllAt(b, args, ii, loc) ==
    CASE ~OffsetOK(loc)    -> ScriptEnd(b, "err", 0, ii)
      [] ~TestStep(b, loc) -> ScriptEnd(b, "int", 0, ii)
      [] OTHER             -> LuaTestAll(b, args, ii + 1)
LuaTestAll(b, args, ii) ==
    IF ii >= args.k THEN ScriptEnd(b, "int", 1, ii)
    ELSE LuaTestAllAt(b, args, ii, LuaLocAt(args, ii))

\* setAddAllStr from iteration ii on, with the script's local present.
RECURSIVE LuaSetAddAll(_, _, _, _)
LuaSetAddAllAt(b, args, ii, present, loc) ==
    IF ~OffsetOK(loc) THEN ScriptEnd(b, "err", 0, ii)
    ELSE LuaSetAddAll(SetStep(b, loc), args, ii + 1, TestAddStep(b, loc, present))
LuaSetAddAll(b, args, ii, present) ==
    IF ii >= args.k THEN ScriptEnd(b, "int", IF present THEN 1 ELSE 0, ii)
    ELSE LuaSetAddAllAt(b, args, ii, present, LuaLocAt(args, ii))

\* DEL key: the key is removed; the reply is the number of keys removed.
RedisDel(b, exists) == ScriptEnd({}, "int", IF exists THEN 1 ELSE 0, 0)

\* What the server does for operation o of filter f on hashes h.
ServerOp(f, o, h, b) ==
    CASE o = "SetAll"     -> LuaSetAll(b, ScriptArgs(f.k, f.m, h), 0)
      [] o = "TestAll"    -> LuaTestAll(b, ScriptArgs(f.k, f.m, h), 0)
      [] o = "TestAddAll" -> LuaSetAddAll(b, ScriptArgs(f.k, f.m, h), 0, TRUE)
      [] OTHER            -> RedisDel(b, b # {})

\* The results the bindings make of a reply.  A result is [val, err].
Ok(v) == [val |-> v, err |-> "nil"]
Fail(e) == [val |-> FALSE, err |-> e]

\* GoredisBloom.SetAll: an error other than redis.Nil (the nil reply) is
\* returned; anything else is success.
GoredisSetAllResult(reply) ==
    IF reply.kind = "err" THEN Fail("script") ELSE Ok(FALSE)

\* GoredisBloom.TestAll / TestAddAll: an error (redis.Nil included) is
\* returned; a reply that is not an int64 is ErrDataType; 1 is true.
GoredisBoolResult(reply) ==
    CASE reply.kind = "err" -> Fail("script")
      [] reply.kind = "nil" -> Fail("redis.Nil")
      [] reply.kind = "int" -> Ok(reply.val = 1)
      [] OTHER              -> Fail("ErrDataType")

\* GoredisBloom.ClearAll: l.client.Del(l.key).Err().
GoredisClearResult(reply) ==
    IF reply.kind = "err" THEN Fail("script") ELSE Ok(FALSE)

\* RedigoBloom.SetAll / ClearAll: the error of Do.
RedigoDoResult(reply) ==
    IF reply.kind = "err" THEN Fail("script") ELSE Ok(FALSE)

\* The texts of the bulk-string replies considered, as sequences of
\* characters; a bulk reply carries the index of its text.
BulkTexts ==
    << <<"0">>, <<"1">>, <<"2">>, <<"-", "1">>, <<"+", "1">>, <<"0", "1">>,
       <<"1", "0">>, <<"a", "b", "c">>, <<"1", " ">>, <<>> >>

\* The value of a decimal digit, -1 for any other character.
DigitVal(c) ==
    CASE c = "0" -> 0 [] c = "1" -> 1 [] c = "2" -> 2 [] c = "3" -> 3 [] c = "4" -> 4
      [] c = "5" -> 5 [] c = "6" -> 6 [] c = "7" -> 7 [] c = "8" -> 8 [] c = "9" -> 9
      [] OTHER -> -1

\* A decimal digit.
IsDigit(c) == DigitVal(c) >= 0

\* The digits d without their leading zeros: the decimal text of the number
\* they spell.
RECURSIVE StripZeros(_)
StripZeros(d) ==
    IF Len(d) > 1 /\ d[1] = "0" THEN StripZeros(Tail(d)) ELSE d

\* The digit sequences a and b have the same length: a is below b from
\* position i on.
RECURSIVE DigitsBelow(_, _, _)
DigitsBelow(a, b, i) ==
    IF i > Len(a) THEN FALSE
    ELSE IF a[i] = b[i] THEN DigitsBelow(a, b, i + 1)
    ELSE DigitVal(a[i]) < DigitVal(b[i])

\* The number spelled by the digits a (no leading zeros) exceeds that of b.
Exceeds(a, b) ==
    \/ Len(a) > Len(b)
    \/ Len(a) = Len(b) /\ DigitsBelow(b, a, 1)

\* 1<<63 - 1 and 1<<63 in decimal: the largest int64 and the magnitude of the
\* smallest.
MaxInt64Text ==
    <<"9", "2", "2", "3", "3", "7", "2", "0", "3", "6", "8", "5", "4", "7", "7", "5", "8",
      "0", "7">>
MinInt64Mag ==
    <<"9", "2", "2", "3", "3", "7", "2", "0", "3", "6", "8", "5", "4", "7", "7", "5", "8",
      "0", "8">>

\* The character of the digit n.
DigitChar(n) == <<"0", "1", "2", "3", "4", "5", "6", "7", "8", "9">>[n + 1]

\* The digits d with zeros before them, n characters in all.
PadZeros(d, n) == [i \in 1 .. (n - Len(d)) |-> "0"] \o d

\* The first i digits of a - b with the borrow c taken from digit i, for
\* digit sequences a and b of one length, a not below b.
RECURSIVE DigitsMinus(_, _, _, _)
DigitsMinus(a, b, i, c) ==
    IF i = 0 THEN <<>>
    ELSE IF DigitVal(a[i]) - DigitVal(b[i]) - c < 0
    THEN DigitsMinus(a, b, i - 1, 1) \o <<DigitChar(DigitVal(a[i]) - DigitVal(b[i]) - c + 10)>>
    ELSE DigitsMinus(a, b, i - 1, 0) \o <<DigitChar(DigitVal(a[i]) - DigitVal(b[i]) - c)>>

\* 1<<64 in decimal.
TwoTo64Text ==
    <<"1", "8", "4", "4", "6", "7", "4", "4", "0", "7", "3", "7", "0", "9", "5", "5", "1",
      "6", "1", "6">>

\* int64(v) of a uint v (64 bits wide), x being its decimal text: a value
\* from 1<<63 on wraps to x - 1<<64.
Int64OfUint(x) ==
    IF Exceeds(x, MaxInt64Text)
    THEN <<"-">> \o StripZeros(DigitsMinus(TwoTo64Text, PadZeros(x, 20), 20, 0))
    ELSE x

\* 1<<64 - 1 in decimal: the largest uint64.
MaxUint64Text ==
    <<"1", "8", "4", "4", "6", "7", "4", "4", "0", "7", "3", "7", "0", "9", "5", "5", "1",
      "6", "1", "5">>

\* The loop of strconv.ParseUint(d, 10, 64) from character i on, n being the
\* decimal text of the number read so far: a character that is no digit is a
\* syntax error, and a digit with which the number no longer fits a uint64
\* is a range error, returned at once with the largest uint64, whatever
\* follows that digit.
RECURSIVE ReadUint(_, _, _)
ReadUint(d, i, n) ==
    IF i > Len(d) THEN [err |-> "nil", n |-> n]
    ELSE IF ~IsDigit(d[i]) THEN [err |-> "syntax", n |-> <<"0">>]
    ELSE IF Exceeds(StripZeros(n \o <<d[i]>>), MaxUint64Text)
    THEN [err |-> "range", n |-> MaxUint64Text]
    ELSE ReadUint(d, i + 1, StripZeros(n \o <<d[i]>>))

\* strconv.ParseUint(d, 10, 64): the empty text is a syntax error.
ParseUint(d) ==
    IF d = <<>> THEN [err |-> "syntax", n |-> <<"0">>] ELSE ReadUint(d, 1, <<"0">>)

\* strconv.ParseInt after the sign: un, err = ParseUint(d, 10, 64); an error
\* that is not a range error is returned with 0, and un is then held against
\* the cutoff 1<<63, so that a range error of ParseUint ends as one of
\* ParseInt.
ParseDigits(d, neg) ==
    IF ParseUint(d).err = "syntax" THEN [ok |-> FALSE, err |-> "syntax", text |-> <<"0">>]
    ELSE IF ~neg /\ Exceeds(ParseUint(d).n, MaxInt64Text)
    THEN [ok |-> FALSE, err |-> "range", text |-> MaxInt64Text]
    ELSE IF neg /\ Exceeds(ParseUint(d).n, MinInt64Mag)
    THEN [ok |-> FALSE, err |-> "range", text |-> <<"-">> \o MinInt64Mag]
    ELSE [ok |-> TRUE, err |-> "nil",
          text |-> IF neg /\ ParseUint(d).n # <<"0">> THEN <<"-">> \o ParseUint(d).n
                   ELSE ParseUint(d).n]

\* strconv.ParseInt(string(t), 10, 64): one optional sign, then at least one
\* digit and digits only.  The result is the decimal text of the int64
\* returned: 0 on a syntax error, the nearest int64 on a range error.
ParseInt(t) ==
    IF t = <<>> THEN [ok |-> FALSE, err |-> "syntax", text |-> <<"0">>]
    ELSE IF t[1] \in {"+", "-"} THEN ParseDigits(Tail(t), t[1] = "-")
    ELSE ParseDigits(t, FALSE)

\* What redigo.Int64 makes of the parsed text of a bulk reply.
RedigoParsed(r) == IF r.ok THEN Ok(r.text = <<"1">>) ELSE Fail("strconv")

\* RedigoBloom.TestAll / TestAddAll: redigo.Int64 of the reply; 1 is true.
\* redigo.Int64 returns an integer reply as it is, parses a bulk string with
\* strconv.ParseInt, returns ErrNil for a nil reply and an error reply as the
\* error, and fails with "unexpected type" on anything else.
RedigoBoolResult(reply) ==
    CASE reply.kind = "err"  -> Fail("script")
      [] reply.kind = "nil"  -> Fail("redigo.ErrNil")
      [] reply.kind = "int"  -> Ok(reply.val = 1)
      [] reply.kind = "bulk" -> RedigoParsed(ParseInt(BulkTexts[reply.val]))
      [] OTHER               -> Fail("redigo.type")

\* What a RedigoBloom operation o does with the connection c it got, on the
\* path of result r: SetAll and ClearAll call Do, then c.Close(); TestAll and
\* TestAddAll call Do, then c.Close() on each of their three paths (err != nil,
\* ret == 1, otherwise).
RedigoPathLeak(o, r) ==
    CASE o \in {"SetAll", "ClearAll"} -> <<"do", "close">>
      [] r.err # "nil"                -> <<"do">>
      [] r.val                        -> <<"do", "close">>
      [] OTHER                        -> <<"do", "close">>
RedigoPath(o, r) ==
    CASE o \in {"SetAll", "ClearAll"} -> <<"do", "close">>
      [] r.err # "nil"                -> <<"do", "close">>
      [] r.val                        -> <<"do", "close">>
      [] OTHER                        -> <<"do", "close">>

\* c := l.getConn() of a RedigoBloom operation that goes to e.
GetConn(f, e) == IF f.backend = "redigo" /\ e.pc = "sent" THEN <<"get">> ELSE <<>>

\* The rest of a RedigoBloom operation o that returns r, from the connection
\* events t.
UseConn(f, o, r, t) == IF f.backend = "redigo" THEN t \o RedigoPath(o, r) ELSE t

\* The result operation o of filter f makes of a reply.
ClientResult(f, o, reply) ==
    IF f.backend = "goredis"
    THEN CASE o = "SetAll"   -> GoredisSetAllResult(reply)
           [] o = "ClearAll" -> GoredisClearResult(reply)
           [] OTHER          -> GoredisBoolResult(reply)
    ELSE CASE o \in {"SetAll", "ClearAll"} -> RedigoDoResult(reply)
           [] OTHER                        -> RedigoBoolResult(reply)

(***************************************************************************)
(* State.                                                                  *)
(***************************************************************************)

VARIABLES
    filter,     \* the filter under test: backend, k, m and the client handle
    bits,       \* its bit array: the bitset of LocalBloom, or the Redis string
    mtx,        \* LocalBloom.mtx: 0 when free, else the goroutine holding it
    pc,         \* per goroutine: where it is in its call
    op,         \* per goroutine: the BitMap operation it runs
    key,        \* per goroutine: the key of the call (0 for ClearAll)
    idx,        \* per goroutine: the loop index i; for a script, the iterations it completed
    present,    \* per goroutine: the local variable present of TestAddAll
    reply,      \* per goroutine: the server's reply on its way to the client
    ret,        \* per goroutine: the result of the call
    snap,       \* history: the bit array when the call took effect
    post,       \* history: the bit array when the call had taken effect
    gflag,      \* history: no ClearAll since the call began (a Test: since its key was added)
    cflag,      \* history: no Add or TestAndAdd since the ClearAll began (a Test: since a ClearAll returned)
    added,      \* history: keys whose Add or TestAndAdd returned, with no ClearAll begun since
    clean,      \* history: a ClearAll returned and no Add or TestAndAdd has begun since
    wiped,      \* history: keys that were in added when a ClearAll began
    committed,  \* history: the bit array as the last completed operation left it
    ncalls,     \* the number of calls begun
    qh, qi, qm, qpc, qlocal, qremote,   \* the location check's inputs and outputs
    epc,        \* EstimateFalsePositiveRate: where its goroutine is
    estN,       \* its argument n
    ei,         \* the loop counter i of its two loops
    concChan,   \* the number of elements in the channel concChan
    wg,         \* the counter of the wait group wg
    fp,         \* the counter fp
    fpRate,     \* its result: <<fp, rounds>> for float64(fp) / float64(rounds)
    worker,     \* per goroutine it spawns: where it is, and the call it makes
    masked,     \* history: a call it made returned an error
    blen,       \* LocalBloom.b's length in bits (0 for a remote filter)
    sin,        \* the constructor and the arguments the filter was built from
    size,       \* per goroutine: the result of its K() or Cap() call
    insts,      \* the remote filter instances built on one identifier
    ccfg,       \* the cache: its backend and its default expireSec
    now,        \* the time, in seconds
    cstore,     \* per cache key: the entry stored (the map of LocalCache, or the Redis hash and its TTL)
    sweepAt,    \* LocalCache.runExpireCheck: the time its timer fires
    cres,       \* the last cache call made, with its result
    clast,      \* history: per cache key, the value and TTL last written and when it was last written or read
    ccalls,     \* the number of cache calls made
    kn,         \* the synthetic keys: the argument n of EstimateFalsePositiveRate
    kadd,       \* the counter i and the key n1 of a goroutine of its first loop
    ktest,      \* the counter i and the key n1 of a goroutine of its second loop
    kpc,        \* whether the synthetic keys are being made
    copen,      \* the connections RedigoCache has got from its getter and not closed
    cm,         \* LocalCache.m: 0, or the goroutine that holds the mutex
    gpc,        \* per caller of the LocalCache: where its goroutine is
    gcall,      \* per caller: its call (operation, key, value, expireSec, the time and jitter of its expireTime)
    spc,        \* where the goroutine of runExpireCheck is
    tmpDel,     \* runExpireCheck: the entries deleted by the sweep
    ti,         \* runExpireCheck: the index of the loop over tmpDel
    cancelled,  \* whether the context passed to NewLocalCache is cancelled
    expireFn,   \* LocalCache.expireFn: "nil" or "fn"
    notified,   \* history: the calls of expireFn, in order
    swept,      \* history: the entries the sweeper has deleted
    erased,     \* history: the entries Del has deleted
    eid,        \* history: per cache key, the number of the call that stored its entry
    sweepEnd,   \* history: the time the last sweep ended at
    scan,       \* the sweeper's range over c.cache: the keys it has still to visit
    conn,       \* per goroutine: what its RedigoBloom call has done with its connection (get, do, close), in order
    since       \* history: the keys whose Add or TestAndAdd took effect since the last ClearAll took effect

qvars == <<qh, qi, qm, qpc, qlocal, qremote>>

evars == <<epc, estN, ei, concChan, wg, fp, fpRate, worker, masked>>

svars == <<sin, size>>

hvars == <<insts>>

cvars == <<ccfg, now, cstore, sweepAt, cres, clast, ccalls>>

kvars == <<kn, kadd, ktest, kpc>>

gvars == <<since>>

nvars == <<conn>>

ovars == <<copen>>

lvars == <<cm, gpc, gcall, spc, tmpDel, ti, cancelled, expireFn, notified, swept, erased, eid,
           sweepEnd, scan>>

yvars == <<kvars, nvars, ovars, lvars>>

xvars == <<gvars, yvars>>

bvars == <<filter, bits, mtx, pc, op, key, idx, present, reply, ret,
           snap, post, gflag, cflag, added, clean, wiped, committed, ncalls, blen>>

\* What the steps of the LocalCache's goroutines leave as it is.
fvars == <<bvars, qvars, evars, svars, hvars, gvars, kvars, nvars, ovars, ccfg, cres, clast, expireFn>>

(***************************************************************************)
(* The membership engine and the backends, one action per step a           *)
(* goroutine takes.  A call begins (Add, Test, TestAndAdd, ClearAll hash   *)
(* the key and enter the backend), takes effect on the bit array (under    *)
(* the mutex, or as one script run on the server), and returns.            *)
(***************************************************************************)

\* The goroutines that call the filter, the keys they use, and the number of
\* calls they make in all.
NumProcs == 2
NumKeys == 3
MaxCalls == 3

Procs == 1 .. NumProcs
Keys == 1 .. NumKeys

NoReply == [kind |-> "none", val |-> 0]
NoRet == [val |-> FALSE, err |-> "none"]

Mutators == {"SetAll", "TestAddAll"}

\* The state after construction of filter f, with goroutines P.
BloomInitWith(f, P) ==
    /\ filter = f
    /\ bits = {}
    /\ mtx = 0
    /\ pc = [p \in P |-> "idle"]
    /\ op = [p \in P |-> "none"]
    /\ key = [p \in P |-> 0]
    /\ idx = [p \in P |-> 0]
    /\ present = [p \in P |-> TRUE]
    /\ reply = [p \in P |-> NoReply]
    /\ ret = [p \in P |-> NoRet]
    /\ snap = [p \in P |-> {}]
    /\ post = [p \in P |-> {}]
    /\ gflag = [p \in P |-> FALSE]
    /\ cflag = [p \in P |-> FALSE]
    /\ added = {}
    /\ clean = FALSE
    /\ wiped = {}
    /\ committed = {}
    /\ ncalls = 0
    /\ blen = (IF f.backend = "local" THEN f.m ELSE Zero64)
    /\ size = [p \in P |-> Zero64]

\* The hashes of goroutine p's key (ClearAll has none).
HashOf(p) == IF key[p] = 0 THEN <<Zero64, Zero64, Zero64, Zero64>> ELSE baseHashes(key[p])

\* The bit index of goroutine p's current loop iteration under the mutex:
\* uint(location(h, i) % uint64(l.b.Len())).
CurLoc(p) == LocalLocAt(HashOf(p), idx[p], blen)

\* The length of the bitset after l.b.Set(loc): Set makes the bitset long
\* enough to hold bit loc.
Extend(len, loc) == IF Lt64(loc, len) THEN len ELSE Add64(loc, U64(1))

\* Where a call goes on entering the backend, and what it returns if it
\* returns at once.  LocalBloom goes for the mutex.  GoredisBloom returns
\* ErrNoRedis when l.client == nil.  RedigoBloom calls l.getConn(), which
\* panics when getConn is nil, and returns ErrNoRedis when it yields nil.
LocalEnter(f) == [pc |-> "lock", ret |-> NoRet]
GoredisEnter(f) ==
    IF f.handle = "nil" THEN [pc |-> "returned", ret |-> Fail("ErrNoRedis")]
                        ELSE [pc |-> "sent", ret |-> NoRet]
RedigoEnter(f) ==
    CASE f.handle = "nil"    -> [pc |-> "panicked", ret |-> Fail("panic")]
      [] f.handle = "noconn" -> [pc |-> "returned", ret |-> Fail("ErrNoRedis")]
      [] OTHER               -> [pc |-> "sent", ret |-> NoRet]
Enter(f) ==
    CASE f.backend = "local"   -> LocalEnter(f)
      [] f.backend = "goredis" -> GoredisEnter(f)
      [] OTHER                 -> RedigoEnter(f)

InFlight(q) == pc[q] # "idle"

\* The filter object that goroutine p calls through: the filter of the run,
\* or, in the runs with several instances built on one identifier, the
\* instance of goroutine p.
InstOf(p) == IF insts = <<>> THEN filter ELSE insts[p]

Clearing == \E q \in DOMAIN pc : InFlight(q) /\ op[q] = "ClearAll"
Mutating == \E q \in DOMAIN pc : InFlight(q) /\ op[q] \in Mutators

\* Goroutine p enters the backend with operation o on key x; e is where it
\* goes.
BeginAt(p, o, x, e) ==
    /\ pc[p] = "idle"
    /\ ncalls' = ncalls + 1
    /\ pc' = [pc EXCEPT ![p] = e.pc]
    /\ ret' = [ret EXCEPT ![p] = e.ret]
    /\ op' = [op EXCEPT ![p] = o]
    /\ key' = [key EXCEPT ![p] = x]
    /\ gflag' = CASE o = "ClearAll" -> [q \in DOMAIN pc |-> FALSE]
                  [] o = "TestAll"  -> [gflag EXCEPT ![p] = x \in added]
                  [] OTHER          -> [gflag EXCEPT ![p] = ~Clearing]
    /\ added' = IF o = "ClearAll" THEN {} ELSE added
    /\ wiped' = IF o = "ClearAll" THEN wiped \cup added ELSE wiped
    /\ cflag' = CASE o = "ClearAll" -> [cflag EXCEPT ![p] = ~Mutating]
                  [] o = "TestAll"  -> [cflag EXCEPT ![p] = clean]
                  [] OTHER          -> [q \in DOMAIN pc |-> FALSE]
    /\ clean' = IF o \in Mutators THEN FALSE ELSE clean
    /\ conn' = [conn EXCEPT ![p] = GetConn(InstOf(p), e)]
    /\ UNCHANGED <<qvars, evars, svars, hvars, cvars, gvars, kvars, ovars, lvars, blen, filter, bits, mtx, idx, present, reply,
                   snap, post, committed>>

\* Goroutine p begins operation o on key x.
Begin(p, o, x) == BeginAt(p, o, x, Enter(InstOf(p)))

\* BloomFilter.Add: h := baseHashes(data); return f.b.SetAll(h).
Add(p, x) ==
    /\ ncalls < MaxCalls
    /\ Begin(p, "SetAll", x)

\* BloomFilter.Test: h := baseHashes(data); return f.b.TestAll(h).
Test(p, x) ==
    /\ ncalls < MaxCalls
    /\ Begin(p, "TestAll", x)

\* BloomFilter.TestAndAdd: h := baseHashes(data); return f.b.TestAddAll(h).
TestAndAdd(p, x) ==
    /\ ncalls < MaxCalls
    /\ Begin(p, "TestAddAll", x)

\* BloomFilter.ClearAll: return f.b.ClearAll().
ClearAll(p) ==
    /\ ncalls < MaxCalls
    /\ Begin(p, "ClearAll", 0)

\* What K() and Cap() return without going to the bit array: a remote
\* binding returns its fields l.k and l.m.
RemoteSize(f, o) == IF o = "K" THEN U64(f.k) ELSE f.m

\* Goroutine p calls K() (o = "K") or Cap() (o = "M", BitMap.M).  LocalBloom
\* goes for the mutex; the remote bindings return at once.
SizeBegin(p, o) ==
    /\ pc[p] = "idle"
    /\ ncalls < MaxCalls
    /\ ncalls' = ncalls + 1
    /\ op' = [op EXCEPT ![p] = o]
    /\ pc' = [pc EXCEPT ![p] = IF filter.backend = "local" THEN "lock" ELSE "returned"]
    /\ ret' = [ret EXCEPT ![p] = IF filter.backend = "local" THEN NoRet ELSE Ok(FALSE)]
    /\ size' = [size EXCEPT ![p] = IF filter.backend = "local" THEN @ ELSE RemoteSize(filter, o)]
    /\ UNCHANGED <<qvars, evars, hvars, cvars, xvars, sin, blen, filter, bits, mtx, key, idx, present, reply, snap, post,
                   gflag, cflag, added, clean, wiped, committed>>

\* BloomFilter.K: return f.b.K().
K(p) ==
    /\ pc[p] = "idle"
    /\ SizeBegin(p, "K")

\* BloomFilter.Cap: return f.b.M().
Cap(p) ==
    /\ pc[p] = "idle"
    /\ SizeBegin(p, "M")

\* A Lock that never waits.
CanLockAny(m, p) == TRUE

\* The keys added since the last ClearAll, after operation o on key x has
\* taken effect (ok: without an error) on a filter where they were s.
SinceAfter(o, x, ok, s) ==
    CASE ok /\ o = "ClearAll" -> {}
      [] ok /\ o \in Mutators -> s \cup {x}
      [] OTHER                -> s

\* l.mtx.Lock() succeeds for goroutine p when the mutex is in state m.
CanLock(m, p) == m = 0

\* l.mtx.Lock() of any LocalBloom operation.
Lock(p) ==
    /\ pc[p] = "lock"
    /\ CanLock(mtx, p)
    /\ mtx' = p
    /\ pc' = [pc EXCEPT ![p] = "loop"]
    /\ idx' = [idx EXCEPT ![p] = 0]
    /\ present' = [present EXCEPT ![p] = TRUE]
    /\ snap' = [snap EXCEPT ![p] = bits]
    /\ UNCHANGED <<qvars, evars, svars, hvars, cvars, xvars, blen, filter, bits, op, key, reply, ret, post, gflag, cflag, added, clean, wiped,
                   committed, ncalls>>

\* A return that leaves the mutex to its holder.
FinishHeld(p, r, b) ==
    /\ mtx' = mtx
    /\ pc' = [pc EXCEPT ![p] = "returned"]
    /\ ret' = [ret EXCEPT ![p] = r]
    /\ post' = [post EXCEPT ![p] = b]
    /\ committed' = b

\* l.mtx.Unlock() and return r, leaving the bit array b.
Finish(p, r, b) ==
    /\ mtx' = 0
    /\ pc' = [pc EXCEPT ![p] = "returned"]
    /\ ret' = [ret EXCEPT ![p] = r]
    /\ post' = [post EXCEPT ![p] = b]
    /\ committed' = b

\* LocalBloom.SetAll under the mutex: one loop iteration, or the end of the loop.
SetAllStep(p) ==
    /\ pc[p] = "loop" /\ op[p] = "SetAll"
    /\ \/ /\ idx[p] < filter.k
          /\ bits' = SetStep(bits, CurLoc(p))
          /\ blen' = Extend(blen, CurLoc(p))
          /\ idx' = [idx EXCEPT ![p] = @ + 1]
          /\ UNCHANGED <<mtx, pc, ret, post, committed>>
       \/ /\ idx[p] >= filter.k
          /\ Finish(p, Ok(FALSE), bits)
          /\ UNCHANGED <<bits, blen, idx>>
    /\ since' = SinceAfter(op[p], key[p], idx[p] >= filter.k, since)
    /\ UNCHANGED <<qvars, evars, svars, hvars, cvars, yvars, filter, op, key, present, reply, snap, gflag, cflag, added, clean, wiped, ncalls>>

\* LocalBloom.TestAll under the mutex: one loop iteration (which returns false
\* on a 0 bit), or the end of the loop.
TestAllStep(p) ==
    /\ pc[p] = "loop" /\ op[p] = "TestAll"
    /\ \/ /\ idx[p] < filter.k
          /\ TestStep(bits, CurLoc(p))
          /\ idx' = [idx EXCEPT ![p] = @ + 1]
          /\ UNCHANGED <<mtx, pc, ret, post, committed>>
       \/ /\ idx[p] < filter.k
          /\ ~TestStep(bits, CurLoc(p))
          /\ Finish(p, Ok(FALSE), bits)
          /\ UNCHANGED idx
       \/ /\ idx[p] >= filter.k
          /\ Finish(p, Ok(TRUE), bits)
          /\ UNCHANGED idx
    /\ UNCHANGED <<qvars, evars, svars, hvars, cvars, xvars, blen, filter, bits, op, key, present, reply, snap, gflag, cflag, added, clean, wiped,
                   ncalls>>

\* LocalBloom.TestAddAll under the mutex: one loop iteration, or the end of
\* the loop.
TestAddAllStep(p) ==
    /\ pc[p] = "loop" /\ op[p] = "TestAddAll"
    /\ \/ /\ idx[p] < filter.k
          /\ present' = [present EXCEPT ![p] = TestAddStep(bits, CurLoc(p), @)]
          /\ bits' = SetStep(bits, CurLoc(p))
          /\ blen' = Extend(blen, CurLoc(p))
          /\ idx' = [idx EXCEPT ![p] = @ + 1]
          /\ UNCHANGED <<mtx, pc, ret, post, committed>>
       \/ /\ idx[p] >= filter.k
          /\ Finish(p, Ok(present[p]), bits)
          /\ UNCHANGED <<bits, blen, idx, present>>
    /\ since' = SinceAfter(op[p], key[p], idx[p] >= filter.k, since)
    /\ UNCHANGED <<qvars, evars, svars, hvars, cvars, yvars, filter, op, key, reply, snap, gflag, cflag, added, clean, wiped, ncalls>>

\* LocalBloom.ClearAll under the mutex.
ClearAllStep(p) ==
    /\ pc[p] = "loop" /\ op[p] = "ClearAll"
    /\ bits' = ClearBits(bits)
    /\ Finish(p, Ok(FALSE), ClearBits(bits))
    /\ since' = SinceAfter(op[p], key[p], TRUE, since)
    /\ UNCHANGED <<qvars, evars, svars, hvars, cvars, yvars, blen, filter, op, key, idx, present, reply, snap, gflag, cflag, added, clean, wiped,
                   ncalls>>

\* LocalBloom.K and LocalBloom.M under the mutex: k := l.k, or m := l.b.Len().
SizeStep(p) ==
    /\ pc[p] = "loop" /\ op[p] \in {"K", "M"}
    /\ size' = [size EXCEPT ![p] = IF op[p] = "K" THEN U64(filter.k) ELSE blen]
    /\ Finish(p, Ok(FALSE), bits)
    /\ UNCHANGED <<qvars, evars, hvars, cvars, xvars, sin, blen, filter, bits, op, key, idx, present, reply, snap,
                   gflag, cflag, added, clean, wiped, ncalls>>

\* The server has run goroutine p's command with outcome r.
ServerDone(p, r) ==
    /\ bits' = r.bits
    /\ reply' = [reply EXCEPT ![p] = r.reply]
    /\ idx' = [idx EXCEPT ![p] = r.n]
    /\ snap' = [snap EXCEPT ![p] = bits]
    /\ post' = [post EXCEPT ![p] = r.bits]
    /\ committed' = r.bits
    /\ pc' = [pc EXCEPT ![p] = "reply"]

\* The server runs goroutine p's script (or DEL) from start to end; nothing
\* else runs on the server meanwhile.
ServerRun(p) ==
    /\ pc[p] = "sent"
    /\ ServerDone(p, ServerOp(InstOf(p), op[p], HashOf(p), bits))
    /\ since' = SinceAfter(op[p], key[p],
                           ServerOp(InstOf(p), op[p], HashOf(p), bits).reply.kind # "err", since)
    /\ UNCHANGED <<qvars, evars, svars, hvars, cvars, yvars, blen, filter, mtx, op, key, present, ret,
                   gflag, cflag, added, clean, wiped, ncalls>>

\* The client gets the reply and makes the call's result of it.
Receive(p) ==
    /\ pc[p] = "reply"
    /\ ret' = [ret EXCEPT ![p] = ClientResult(InstOf(p), op[p], reply[p])]
    /\ pc' = [pc EXCEPT ![p] = "returned"]
    /\ conn' = [conn EXCEPT ![p] =
                   UseConn(InstOf(p), op[p], ClientResult(InstOf(p), op[p], reply[p]), @)]
    /\ UNCHANGED <<qvars, evars, svars, hvars, cvars, gvars, kvars, ovars, lvars, blen, filter, bits, mtx, op, key, idx, present, reply, snap, post, gflag, cflag,
                   added, clean, wiped, committed, ncalls>>

\* The connection fails, before the server ran the command or after: the
\* client returns the transport's error.
TransportFail(p) ==
    /\ \/ pc[p] = "sent"
       \/ pc[p] = "reply"
    /\ ret' = [ret EXCEPT ![p] = Fail("transport")]
    /\ pc' = [pc EXCEPT ![p] = "returned"]
    /\ conn' = [conn EXCEPT ![p] = UseConn(InstOf(p), op[p], Fail("transport"), @)]
    /\ UNCHANGED <<qvars, evars, svars, hvars, cvars, gvars, kvars, ovars, lvars, blen, filter, bits, mtx, op, key, idx, present, reply, snap, post, gflag, cflag,
                   added, clean, wiped, committed, ncalls>>

\* Goroutine p has the result of its call and goes on.
ReturnCall(p) ==
    /\ pc[p] = "returned"
    /\ pc' = [pc EXCEPT ![p] = "idle"]
    /\ added' = IF op[p] \in Mutators /\ ret[p].err = "nil" /\ gflag[p]
                THEN added \cup {key[p]} ELSE added
    /\ clean' = IF op[p] = "ClearAll" /\ ret[p].err = "nil" THEN cflag[p] ELSE clean
    /\ op' = [op EXCEPT ![p] = "none"]
    /\ key' = [key EXCEPT ![p] = 0]
    /\ idx' = [idx EXCEPT ![p] = 0]
    /\ present' = [present EXCEPT ![p] = TRUE]
    /\ reply' = [reply EXCEPT ![p] = NoReply]
    /\ ret' = [ret EXCEPT ![p] = NoRet]
    /\ snap' = [snap EXCEPT ![p] = {}]
    /\ post' = [post EXCEPT ![p] = {}]
    /\ gflag' = [gflag EXCEPT ![p] = FALSE]
    /\ cflag' = [cflag EXCEPT ![p] = FALSE]
    /\ size' = [size EXCEPT ![p] = Zero64]
    /\ UNCHANGED <<qvars, hvars, cvars, xvars, sin, blen, filter, bits, mtx, wiped, committed, ncalls>>

\* The caller of Add, Test, TestAndAdd or ClearAll has its result.
Return(p) ==
    /\ ReturnCall(p)
    /\ UNCHANGED evars

(***************************************************************************)
(* The location scheme as a function of its inputs: both backends' bit     *)
(* index for one (h, i, m).                                                *)
(***************************************************************************)

\* Indices 0..MaxIdx and the array sizes the location check ranges over.
MaxIdx == 5

LocSizes == {U64(5), U64(8), U64(1000), <<0, 0, 2, 0>>}

LocInit ==
    /\ qh \in {baseHashes(x) : x \in KeyIds}
    /\ qi \in 0 .. MaxIdx
    /\ qm \in LocSizes
    /\ qpc = "in"
    /\ qlocal = Zero64
    /\ qremote = Zero64

\* Both backends compute the bit index of (qh, qi) in an array of qm bits; the
\* remote one is given k = qi + 1, the smallest k whose loop reaches index qi.
LocCompute ==
    /\ qpc = "in"
    /\ qpc' = "out"
    /\ qlocal' = LocalLoc(qh, qi, qm)
    /\ qremote' = RemoteLoc(qh, qi, qi + 1, qm)
    /\ UNCHANGED <<qh, qi, qm>>
    /\ UNCHANGED <<bvars, evars, svars, hvars, cvars, xvars>>

LocNext == LocCompute


(***************************************************************************)
(* EstimateFalsePositiveRate: the calling goroutine (goroutine 0) and the   *)
(* goroutines it spawns (goroutine j + 1 for the j-th spawned).  The calls  *)
(* they make go through the backend like any other call.                   *)
(***************************************************************************)

EstMain == 0
EstWorkers == 1 .. (MaxN + Rounds)
EstProcs == {EstMain} \cup EstWorkers

\* The filters EstimateFalsePositiveRate is run on.
EstConfigs ==
    { NewLocal(U64(5), 3), NewGoredis(U64(5), 3, "client"), NewGoredis(U64(5), 3, "nil") }

\* The key n1 of a goroutine: the 4 bytes of v, big endian.  Key number v + 1
\* stands for them.
EstKey(v) == v + 1

NoWorker == [stage |-> "none", op |-> "none", key |-> 0]

EstIdle ==
    /\ epc = "off" /\ estN = 0 /\ ei = 0 /\ concChan = 0 /\ wg = 0 /\ fp = 0
    /\ fpRate = <<>> /\ worker = <<>> /\ masked = FALSE

EstInit ==
    /\ epc = "clear" /\ estN \in 0 .. MaxN /\ ei = 0 /\ concChan = 0 /\ wg = 0 /\ fp = 0
    /\ fpRate = <<>> /\ worker = [w \in EstWorkers |-> NoWorker] /\ masked = FALSE

\* f.ClearAll(), first and last statement but one: the call begins.
EstClearAll ==
    /\ epc \in {"clear", "clear2"}
    /\ Begin(EstMain, "ClearAll", 0)

\* f.ClearAll() has returned; its error is dropped.
EstCleared ==
    /\ epc \in {"clear", "clear2"}
    /\ ReturnCall(EstMain)
    /\ masked' = (masked \/ ret[EstMain].err # "nil")
    /\ epc' = IF epc = "clear" THEN "adds" ELSE "done"
    /\ UNCHANGED <<estN, ei, concChan, wg, fp, fpRate, worker>>

\* An iteration that starts its goroutine without waiting for room in the
\* channel.
EstSpawnUnbounded(w, o, v) ==
    /\ concChan' = concChan + 1
    /\ wg' = wg + 1
    /\ worker' = [worker EXCEPT ![w] = [stage |-> "go", op |-> o, key |-> EstKey(v)]]
    /\ ei' = ei + 1
    /\ UNCHANGED <<epc, estN, fp, fpRate, masked, bvars, qvars, svars, hvars, cvars, xvars>>

\* One iteration of a loop of EstimateFalsePositiveRate: concChan <- struct{}{}
\* (which waits for room in the channel), wg.Add(1) and go func(ii){...}(i),
\* with the operation o and the key v of the goroutine w it starts.
EstSpawn(w, o, v) ==
    /\ concChan < ConcCap
    /\ concChan' = concChan + 1
    /\ wg' = wg + 1
    /\ worker' = [worker EXCEPT ![w] = [stage |-> "go", op |-> o, key |-> EstKey(v)]]
    /\ ei' = ei + 1
    /\ UNCHANGED <<epc, estN, fp, fpRate, masked, bvars, qvars, svars, hvars, cvars, xvars>>

\* for i := uint32(0); i < uint32(n); i++ { ... f.Add(n1) ... }
EstSpawnAdd ==
    /\ epc = "adds"
    /\ ei < estN
    /\ EstSpawn(ei + 1, "SetAll", ei)

\* A first loop that goes on to the tests without wg.Wait().
EstSkipWaitAdds ==
    /\ epc = "adds"
    /\ ei >= estN
    /\ epc' = "tests"
    /\ ei' = 0
    /\ fp' = 0
    /\ UNCHANGED <<estN, concChan, wg, fpRate, worker, masked, bvars, qvars, svars, hvars, cvars, xvars>>

\* wg.Wait() after the first loop; fp := int32(0).
EstWaitAdds ==
    /\ epc = "adds"
    /\ ei >= estN
    /\ wg = 0
    /\ epc' = "tests"
    /\ ei' = 0
    /\ fp' = 0
    /\ UNCHANGED <<estN, concChan, wg, fpRate, worker, masked, bvars, qvars, svars, hvars, cvars, xvars>>

\* for i := uint32(0); i < rounds; i++ { ... f.Test(n1) ... }, with n1 the
\* bytes of ii+uint32(n)+1.
EstSpawnTest ==
    /\ epc = "tests"
    /\ ei < Rounds
    /\ EstSpawn(estN + ei + 1, "TestAll", ei + estN + 1)

\* wg.Wait() after the second loop; fpRate = float64(fp) / float64(rounds).
EstWaitTests ==
    /\ epc = "tests"
    /\ ei >= Rounds
    /\ wg = 0
    /\ fpRate' = <<fp, Rounds>>
    /\ epc' = "clear2"
    /\ UNCHANGED <<estN, ei, concChan, wg, fp, worker, masked, bvars, qvars, svars, hvars, cvars, xvars>>

\* A spawned goroutine calls f.Add(n1) or f.Test(n1).
WorkerCall(w) ==
    /\ worker[w].stage = "go"
    /\ Begin(w, worker[w].op, worker[w].key)

\* Its call has returned: the error is dropped, and a Test that returned true
\* does atomic.AddInt32(&fp, 1).
WorkerReturned(w) ==
    /\ worker[w].stage = "go"
    /\ ReturnCall(w)
    /\ masked' = (masked \/ ret[w].err # "nil")
    /\ fp' = IF op[w] = "TestAll" /\ ret[w].val THEN fp + 1 ELSE fp
    /\ worker' = [worker EXCEPT ![w].stage = "recv"]
    /\ UNCHANGED <<epc, estN, ei, concChan, wg, fpRate>>

\* A goroutine that goes on to wg.Done() without receiving from concChan.
WorkerKeepSlot(w) ==
    /\ worker[w].stage = "recv"
    /\ concChan > 0
    /\ worker' = [worker EXCEPT ![w].stage = "wgdone"]
    /\ UNCHANGED <<epc, estN, ei, concChan, wg, fp, fpRate, masked, bvars, qvars, svars, hvars, cvars, xvars>>

\* <-concChan
WorkerRecv(w) ==
    /\ worker[w].stage = "recv"
    /\ concChan > 0
    /\ concChan' = concChan - 1
    /\ worker' = [worker EXCEPT ![w].stage = "wgdone"]
    /\ UNCHANGED <<epc, estN, ei, wg, fp, fpRate, masked, bvars, qvars, svars, hvars, cvars, xvars>>

\* wg.Done()
WorkerDone(w) ==
    /\ worker[w].stage = "wgdone"
    /\ wg' = wg - 1
    /\ worker' = [worker EXCEPT ![w].stage = "exit"]
    /\ UNCHANGED <<epc, estN, ei, concChan, fp, fpRate, masked, bvars, qvars, svars, hvars, cvars, xvars>>

(***************************************************************************)
(* Remote filter instances on one identifier: two filter objects, each     *)
(* used by one goroutine, whose commands run on the bit array of the one   *)
(* identifier with the k and m of the instance they are sent through.      *)
(***************************************************************************)

\* The number of calls made through the instances.
MaxShareCalls == 3

\* The instances: both bindings, with equal and with different (m, k).
ShareConfigs ==
    { NewGoredis(U64(5), 3, "client"), NewRedisgo(U64(5), 3, "conn"),
      NewGoredis(U64(8), 2, "client") }

ShareIdle == insts = <<>>

ShareInit == insts \in ShareConfigs \X ShareConfigs

\* Add, Test, TestAndAdd and ClearAll through instance a are called: the
\* goroutine of the instance enters the binding, which sends the command.
ShareAdd(a, x) ==
    /\ ncalls < MaxShareCalls
    /\ Begin(a, "SetAll", x)

ShareTest(a, x) ==
    /\ ncalls < MaxShareCalls
    /\ Begin(a, "TestAll", x)

ShareTestAndAdd(a, x) ==
    /\ ncalls < MaxShareCalls
    /\ Begin(a, "TestAddAll", x)

ShareClearAll(a) ==
    /\ ncalls < MaxShareCalls
    /\ Begin(a, "ClearAll", 0)

(***************************************************************************)
(* The cache: values and their conversions.  A Go value is its dynamic     *)
(* type and its text (the decimal digits of a number, the characters of a  *)
(* string or byte slice, true or false).                                   *)
(***************************************************************************)

Val(t, x) == [x |-> x, t |-> t]

\* The nil interface value, and the nil pointer of a typed getter.
NoVal == Val("nil", <<>>)

TextTrue == <<"t", "r", "u", "e">>
TextFalse == <<"f", "a", "l", "s", "e">>
TextAbc == <<"a", "b", "c">>

\* What the clients write for an argument of a command: a number in decimal,
\* a bool as 1 or 0, a string or a byte slice as it is, nil as the empty
\* string.
ArgText(v) ==
    CASE v.t = "bool" -> IF v.x = TextTrue THEN <<"1">> ELSE <<"0">>
      [] v.t = "nil"  -> <<>>
      [] OTHER        -> v.x

\* go-redis writes the types it knows and fails on any other; redigo prints
\* any other type with fmt.Fprint.
GoredisCanMarshal(v) ==
    v.t \in {"nil", "string", "bytes", "bool", "int", "int8", "int16", "int32", "int64",
             "uint", "uint8", "uint16", "uint32", "uint64", "float32", "float64"}

\* A result of a cache call: the value (or pointer) returned and the error.
CRet(v, e) == [val |-> v, err |-> e]

\* lower(c) of strconv for the letters its syntax names.
Lower(c) ==
    CASE c = "A" -> "a" [] c = "B" -> "b" [] c = "C" -> "c" [] c = "D" -> "d"
      [] c = "E" -> "e" [] c = "F" -> "f" [] c = "I" -> "i" [] c = "N" -> "n"
      [] c = "P" -> "p" [] c = "T" -> "t" [] c = "X" -> "x" [] c = "Y" -> "y"
      [] OTHER -> c

LowerText(t) == [i \in 1 .. Len(t) |-> Lower(t[i])]

\* The value of a hexadecimal digit, -1 for any other character.
HexVal(c) ==
    IF IsDigit(c) THEN DigitVal(c)
    ELSE CASE Lower(c) = "a" -> 10 [] Lower(c) = "b" -> 11 [] Lower(c) = "c" -> 12
           [] Lower(c) = "d" -> 13 [] Lower(c) = "e" -> 14 [] Lower(c) = "f" -> 15
           [] OTHER -> -1

TextInf == <<"i", "n", "f">>
TextInfinity == <<"i", "n", "f", "i", "n", "i", "t", "y">>
TextNaN == <<"n", "a", "n">>
PlusInf == <<"+", "I", "n", "f">>
MinusInf == <<"-", "I", "n", "f">>

\* special(s) of atof.go on the whole text: inf and infinity with an optional
\* sign, nan without one, in any case of the letters.
special(t) ==
    CASE t # <<>> /\ t[1] \in {"+", "-"} /\ LowerText(Tail(t)) \in {TextInf, TextInfinity} ->
            [ok |-> TRUE, text |-> IF t[1] = "-" THEN MinusInf ELSE PlusInf]
      [] LowerText(t) \in {TextInf, TextInfinity} -> [ok |-> TRUE, text |-> PlusInf]
      [] LowerText(t) = TextNaN -> [ok |-> TRUE, text |-> <<"N", "a", "N">>]
      [] OTHER -> [ok |-> FALSE, text |-> <<"0">>]

\* The loop of readFloat over the mantissa from position i on: underscores
\* are skipped and noted, one "." is taken, zeros before the first other
\* digit move the point, the digits after them are kept (mant), and the loop
\* ends at the first character that is none of these.
RECURSIVE ReadMantissa(_, _, _, _)
ReadMantissa(s, i, hex, st) ==
    IF i > Len(s) THEN [st EXCEPT !.i = i]
    ELSE CASE s[i] = "_" ->
                ReadMantissa(s, i + 1, hex, [st EXCEPT !.underscores = TRUE])
           [] s[i] = "." ->
                IF st.sawdot THEN [st EXCEPT !.i = i]
                ELSE ReadMantissa(s, i + 1, hex,
                                  [st EXCEPT !.sawdot = TRUE, !.dp = Len(st.mant)])
           [] IsDigit(s[i]) ->
                IF s[i] = "0" /\ st.mant = <<>>
                THEN ReadMantissa(s, i + 1, hex,
                                  [st EXCEPT !.sawdigits = TRUE, !.dp = @ - 1])
                ELSE ReadMantissa(s, i + 1, hex,
                                  [st EXCEPT !.sawdigits = TRUE, !.mant = Append(@, s[i])])
           [] hex /\ HexVal(s[i]) >= 10 ->
                ReadMantissa(s, i + 1, hex,
                             [st EXCEPT !.sawdigits = TRUE, !.mant = Append(@, Lower(s[i]))])
           [] OTHER -> [st EXCEPT !.i = i]

\* The loop of readFloat over the digits of the exponent from position i on;
\* the exponent stops growing at 10000.
RECURSIVE ReadExp(_, _, _, _)
ReadExp(s, i, e, u) ==
    IF i <= Len(s) /\ s[i] = "_" THEN ReadExp(s, i + 1, e, TRUE)
    ELSE IF i <= Len(s) /\ IsDigit(s[i])
    THEN ReadExp(s, i + 1, IF e < 10000 THEN e * 10 + DigitVal(s[i]) ELSE e, u)
    ELSE [i |-> i, e |-> e, underscores |-> u]

\* The loop of underscoreOK from position i on; saw is the kind of the last
\* character: "0" a digit or the base prefix, "_" an underscore, "!" another
\* character, "^" the beginning.
RECURSIVE UnderscoreScan(_, _, _, _)
UnderscoreScan(s, i, hex, saw) ==
    IF i > Len(s) THEN saw # "_"
    ELSE IF IsDigit(s[i]) \/ (hex /\ HexVal(s[i]) >= 10) THEN UnderscoreScan(s, i + 1, hex, "0")
    ELSE IF s[i] = "_" THEN saw = "0" /\ UnderscoreScan(s, i + 1, hex, "_")
    ELSE saw # "_" /\ UnderscoreScan(s, i + 1, hex, "!")

\* underscoreOK(s): an underscore stands between two digits, or between a
\* base prefix and a digit.
underscoreOK(t) ==
    LET s == IF t # <<>> /\ t[1] \in {"+", "-"} THEN Tail(t) ELSE t
        pre == Len(s) >= 2 /\ s[1] = "0" /\ Lower(s[2]) \in {"b", "o", "x"}
    IN  UnderscoreScan(s, IF pre THEN 3 ELSE 1, pre /\ Lower(s[2]) = "x",
                       IF pre THEN "0" ELSE "^")

\* readFloat(s): the sign, the base, the digits of the mantissa after its
\* leading zeros, the position dp of the point (the value is 0.mant times
\* 10^dp, or 2^dp for a hexadecimal mantissa), and the position i where the
\* number ends.
readFloat(s) ==
    LET i0  == IF s # <<>> /\ s[1] \in {"+", "-"} THEN 2 ELSE 1
        hex == i0 + 2 <= Len(s) /\ s[i0] = "0" /\ Lower(s[i0 + 1]) = "x"
        m   == ReadMantissa(s, IF hex THEN i0 + 2 ELSE i0, hex,
                            [i |-> i0, mant |-> <<>>, dp |-> 0, sawdot |-> FALSE,
                             sawdigits |-> FALSE, underscores |-> FALSE])
        dp  == (IF m.sawdot THEN m.dp ELSE Len(m.mant)) * (IF hex THEN 4 ELSE 1)
        hasExp == m.i <= Len(s) /\ Lower(s[m.i]) = (IF hex THEN "p" ELSE "e")
        j   == m.i + 1
        k   == IF j <= Len(s) /\ s[j] \in {"+", "-"} THEN j + 1 ELSE j
        x   == ReadExp(s, k, 0, FALSE)
        end == IF hasExp THEN x.i ELSE m.i
        bad == [ok |-> FALSE, neg |-> FALSE, hex |-> FALSE, mant |-> <<>>, dp |-> 0, i |-> 1]
    IN  IF ~m.sawdigits THEN bad
        ELSE IF hasExp /\ (k > Len(s) \/ ~IsDigit(s[k])) THEN bad
        ELSE IF ~hasExp /\ hex THEN bad
        ELSE IF (m.underscores \/ (hasExp /\ x.underscores))
                /\ ~underscoreOK(SubSeq(s, 1, end - 1)) THEN bad
        ELSE [ok |-> TRUE, neg |-> s[1] = "-", hex |-> hex, mant |-> m.mant,
              dp |-> IF ~hasExp THEN dp
                     ELSE IF s[j] = "-" THEN dp - x.e ELSE dp + x.e,
              i |-> end]

\* 2^1024 - 2^970 in decimal (309 digits): the least number that rounds to no
\* float64.
OverflowText ==
    <<
      "1", "7", "9", "7", "6", "9", "3", "1", "3", "4", "8", "6", "2", "3", "1", "5", "8", "0", "7", "9",
      "3", "7", "2", "8", "9", "7", "1", "4", "0", "5", "3", "0", "3", "4", "1", "5", "0", "7", "9", "9",
      "3", "4", "1", "3", "2", "7", "1", "0", "0", "3", "7", "8", "2", "6", "9", "3", "6", "1", "7", "3",
      "7", "7", "8", "9", "8", "0", "4", "4", "4", "9", "6", "8", "2", "9", "2", "7", "6", "4", "7", "5",
      "0", "9", "4", "6", "6", "4", "9", "0", "1", "7", "9", "7", "7", "5", "8", "7", "2", "0", "7", "0",
      "9", "6", "3", "3", "0", "2", "8", "6", "4", "1", "6", "6", "9", "2", "8", "8", "7", "9", "1", "0",
      "9", "4", "6", "5", "5", "5", "5", "4", "7", "8", "5", "1", "9", "4", "0", "4", "0", "2", "6", "3",
      "0", "6", "5", "7", "4", "8", "8", "6", "7", "1", "5", "0", "5", "8", "2", "0", "6", "8", "1", "9",
      "0", "8", "9", "0", "2", "0", "0", "0", "7", "0", "8", "3", "8", "3", "6", "7", "6", "2", "7", "3",
      "8", "5", "4", "8", "4", "5", "8", "1", "7", "7", "1", "1", "5", "3", "1", "7", "6", "4", "4", "7",
      "5", "7", "3", "0", "2", "7", "0", "0", "6", "9", "8", "5", "5", "5", "7", "1", "3", "6", "6", "9",
      "5", "9", "6", "2", "2", "8", "4", "2", "9", "1", "4", "8", "1", "9", "8", "6", "0", "8", "3", "4",
      "9", "3", "6", "4", "7", "5", "2", "9", "2", "7", "1", "9", "0", "7", "4", "1", "6", "8", "4", "4",
      "4", "3", "6", "5", "5", "1", "0", "7", "0", "4", "3", "4", "2", "7", "1", "1", "5", "5", "9", "6",
      "9", "9", "5", "0", "8", "0", "9", "3", "0", "4", "2", "8", "8", "0", "1", "7", "7", "9", "0", "4",
      "1", "7", "4", "4", "9", "7", "7", "9", "2" >>

\* The digits a, continued with zeros, spell a number that is not below the
\* one of b, from position i on.
RECURSIVE AtLeast(_, _, _)
AtLeast(a, b, i) ==
    IF i > Len(b) THEN TRUE
    ELSE IF (IF i <= Len(a) THEN a[i] ELSE "0") = b[i] THEN AtLeast(a, b, i + 1)
    ELSE DigitVal(IF i <= Len(a) THEN a[i] ELSE "0") > DigitVal(b[i])

\* The four bits of a hexadecimal digit, and of a sequence of them.
HexBits(c) ==
    << HexVal(c) \div 8, (HexVal(c) \div 4) % 2, (HexVal(c) \div 2) % 2, HexVal(c) % 2 >>
RECURSIVE MantBits(_)
MantBits(m) == IF m = <<>> THEN <<>> ELSE HexBits(m[1]) \o MantBits(Tail(m))

\* The zero bits before the first 1 of the bits b, which hold a 1.
RECURSIVE LeadingZeros(_)
LeadingZeros(b) == IF b[1] = 1 THEN 0 ELSE 1 + LeadingZeros(Tail(b))

\* The number read is too large for a float64: it is 2^1024 - 2^970 or more,
\* which in binary is a 1 in place 1024 followed by 53 more.
TooLarge(r) ==
    IF r.mant = <<>> THEN FALSE
    ELSE IF ~r.hex THEN r.dp > 309 \/ (r.dp = 309 /\ AtLeast(r.mant, OverflowText, 1))
    ELSE LET b == MantBits(r.mant)
             z == LeadingZeros(b)
         IN  \/ r.dp - z > 1024
             \/ /\ r.dp - z = 1024
                /\ Len(b) >= z + 54
                /\ \A n \in z + 1 .. z + 54 : b[n] = 1

\* The text t without its underscores.
RECURSIVE DropUnderscores(_)
DropUnderscores(t) ==
    IF t = <<>> THEN <<>>
    ELSE IF t[1] = "_" THEN DropUnderscores(Tail(t))
    ELSE <<t[1]>> \o DropUnderscores(Tail(t))

\* The number that the text t spells, as a numeral: t without a "+" in front
\* and without its underscores.
Numeral(t) == DropUnderscores(IF t[1] = "+" THEN Tail(t) ELSE t)

\* strconv.ParseFloat(t, 64) accepts t: inf, infinity or nan, or one optional
\* sign and a decimal or hexadecimal mantissa with at most one ".", at least
\* one digit and an exponent (optional after a decimal mantissa), with
\* nothing after it.
FloatSyntax(t) ==
    special(t).ok \/ (readFloat(t).ok /\ readFloat(t).i = Len(t) + 1)

\* strconv.ParseFloat(t, 64): the float64 nearest to the number that t
\* spells, given by a numeral of that number; 0 and a syntax error for a text
\* that is no number, an infinity and a range error for a number too large.
ParseFloat(t) ==
    IF special(t).ok THEN [err |-> "nil", text |-> special(t).text]
    ELSE IF ~FloatSyntax(t) THEN [err |-> "syntax", text |-> <<"0">>]
    ELSE IF TooLarge(readFloat(t))
    THEN [err |-> "range", text |-> IF readFloat(t).neg THEN MinusInf ELSE PlusInf]
    ELSE [err |-> "nil", text |-> Numeral(t)]

\* strconv.ParseBool(t): the texts it accepts as true and as false.
BoolTrueTexts ==
    { <<"1">>, <<"t">>, <<"T">>, <<"T", "R", "U", "E">>, TextTrue, <<"T", "r", "u", "e">> }
BoolFalseTexts ==
    { <<"0">>, <<"f">>, <<"F">>, <<"F", "A", "L", "S", "E">>, TextFalse,
      <<"F", "a", "l", "s", "e">> }

\* LocalCache.GetInt, GetFloat, GetString, GetBytes and GetBool on the value v
\* that Get returned (not nil): the type switch of each.
LocalGetInt(v) ==
    IF v.t = "uint" THEN CRet(Val("int64", Int64OfUint(v.x)), "nil")
    ELSE IF v.t \in {"int", "int8", "int16", "int32", "int64", "uint8", "uint16", "uint32"}
    THEN CRet(Val("int64", v.x), "nil")
    ELSE CRet(NoVal, "ErrDataType")

LocalGetFloat(v) ==
    IF v.t \in {"float32", "float64"} THEN CRet(Val("float64", v.x), "nil")
    ELSE CRet(NoVal, "ErrDataType")

LocalGetString(v) ==
    IF v.t \in {"string", "bytes"} THEN CRet(Val("string", v.x), "nil")
    ELSE CRet(Val("string", <<>>), "ErrDataType")

LocalGetBytes(v) ==
    IF v.t \in {"string", "bytes"} THEN CRet(Val("bytes", v.x), "nil")
    ELSE CRet(NoVal, "ErrDataType")

\* In the case float32, float64, int, int64 the variable v keeps the type
\* interface{}, and v == 1 compares it with int(1): true for an int 1 only.
LocalGetBool(v) ==
    CASE v.t \in {"float32", "float64", "int", "int64"} ->
            CRet(Val("bool", IF v = Val("int", <<"1">>) THEN TextTrue ELSE TextFalse), "nil")
      [] v.t = "string" ->
            CRet(Val("bool", IF v.x \in {TextTrue, <<"1">>, <<"t">>, <<"T">>}
                             THEN TextTrue ELSE TextFalse), "nil")
      [] v.t = "bool" -> CRet(v, "nil")
      [] OTHER -> CRet(NoVal, "ErrDataType")

\* The typed getters of GoredisCache and RedigoCache on the text t that Get
\* returned: strconv's result and error, returned as they are.
ParsedInt(r) == CRet(Val("int64", r.text), IF r.ok THEN "nil" ELSE "strconv")

RemoteGetInt(t) == ParsedInt(ParseInt(t))

RemoteGetFloat(t) ==
    CRet(Val("float64", ParseFloat(t).text),
         IF ParseFloat(t).err = "nil" THEN "nil" ELSE "strconv")

RemoteGetBool(t) ==
    CASE t \in BoolTrueTexts  -> CRet(Val("bool", TextTrue), "nil")
      [] t \in BoolFalseTexts -> CRet(Val("bool", TextFalse), "nil")
      [] OTHER                -> CRet(Val("bool", TextFalse), "strconv")

\* The getters of the cache interface.
Getters == {"Get", "GetInt", "GetFloat", "GetString", "GetBytes", "GetBool"}

\* What getter g of a LocalCache returns when Get returned (v, nil), v not nil.
LocalTyped(g, v) ==
    CASE g = "GetInt"    -> LocalGetInt(v)
      [] g = "GetFloat"  -> LocalGetFloat(v)
      [] g = "GetString" -> LocalGetString(v)
      [] g = "GetBytes"  -> LocalGetBytes(v)
      [] g = "GetBool"   -> LocalGetBool(v)
      [] OTHER           -> CRet(v, "nil")

\* What getter g of a remote cache returns when Get returned the text t as a
\* value of type ty (string for go-redis, []byte for redigo).
RemoteTyped(g, ty, t) ==
    CASE g = "GetInt"    -> RemoteGetInt(t)
      [] g = "GetFloat"  -> RemoteGetFloat(t)
      [] g = "GetString" -> CRet(Val("string", t), "nil")
      [] g = "GetBytes"  -> CRet(Val("bytes", t), "nil")
      [] g = "GetBool"   -> RemoteGetBool(t)
      [] OTHER           -> CRet(Val(ty, t), "nil")

\* What getter g returns when Get returned (nil, nil): GetString returns "",
\* GoredisCache.GetBytes []byte(""), the others nil.
AbsentResult(b, g) ==
    CASE g = "GetString"                  -> CRet(Val("string", <<>>), "nil")
      [] g = "GetBytes" /\ b = "goredis"  -> CRet(Val("bytes", <<>>), "nil")
      [] OTHER                            -> CRet(NoVal, "nil")

(***************************************************************************)
(* The cache: one cache of one backend, its entries, the clock, the        *)
(* callers' goroutines and the sweeper of LocalCache.  Time is counted in  *)
(* seconds.  A call is a sequence of steps of its goroutine: a write of    *)
(* LocalCache reads the clock and uses the random source c.r, waits for    *)
(* the mutex c.m and stores; a call of a remote cache gets its connection, *)
(* sends its command, which the server runs, and reads the reply.  The     *)
(* TTLs considered are not negative.                                       *)
(***************************************************************************)

DefaultCheckSecond == 60

\* The zero time.Time of an entry that does not expire; a Redis key without
\* a TTL.
NoTime == -1

\* The latest time of the runs with a clock, the cache keys and the number
\* of calls considered.
MaxLongTime == 8
NumCacheKeys == 2
MaxCacheCalls == 3

CacheKeys == 1 .. NumCacheKeys

\* The goroutines that call the cache, and the goroutine of runExpireCheck.
NumCallers == 2
Callers == 1 .. NumCallers
Sweeper == NumCallers + 1

\* The latest time of the runs in which the sweeper goes step by step, and
\* the number of calls made in them and in the runs with one caller.
MaxLocalTime == 3
MaxLocalCalls == 2

\* The default expireSec of the caches considered (LocalWithExpire and the
\* like), and the expireSec arguments of SetWithExpire.
CacheDefaults == {0, 2, 10}
LongDefaults == {0, 10}
ShortDefaults == {2}
ShortTTLs == {0, 3}

\* The caches built on a client (a connection getter that returns
\* connections), and the remote caches built on none: NewGoredisCache(nil),
\* and NewRedigoCache with a getter that returns nil.
CacheConfigs ==
    {[backend |-> b, client |-> "client", expireSec |-> d] : b \in Backends, d \in CacheDefaults}
NilConfigs ==
    {[backend |-> b, client |-> "nil", expireSec |-> d] : b \in {"goredis", "redigo"},
                                                          d \in CacheDefaults}

\* The local caches of the runs in which the sweeper goes step by step:
\* LocalWithExpire(2), with and without LocalExpireNotify.
LocalCacheConfigs == {[backend |-> "local", client |-> "client", expireSec |-> 2]}
ExpireFns == {"nil", "fn"}

\* An entry: the value, the expireSec stored with it (the field exp of the
\* hash) and the time it expires at.
Entry(v, e, a) == [has |-> TRUE, val |-> v, exp |-> e, at |-> a]
NoEntry == [has |-> FALSE, val |-> NoVal, exp |-> 0, at |-> NoTime]

\* What is kept of the last write of a key: its value, its expireSec, the
\* number of its call and the error it returned ("pending" until it
\* returns); touch is the time the clock was last read for the entry's
\* expiry, by that write or by a read since (read).
NoLast ==
    [val |-> NoVal, err |-> "nil", has |-> FALSE, ttl |-> 0, touch |-> 0, id |-> 0, read |-> FALSE]

\* What is kept of the last call that returned: its operation, its key and
\* its result; whether it got to the entries (ran), and then the entry it
\* found, the number of the write that entry was stored by (wid), and when
\* (at).
NoCacheCall ==
    [op |-> "none", key |-> 0, ret |-> CRet(NoVal, "nil"), at |-> 0, found |-> NoEntry,
     wid |-> 0, ran |-> FALSE]

\* The call of a goroutine: operation, key, value, expireSec; the time t it
\* read the clock at and the jitter j it got from Intn; whether another
\* goroutine was in the random source with it (raced); and, once it got to
\* the entries (ran), what it found there.
NoLocalCall ==
    [j |-> 0, val |-> NoVal, t |-> 0, op |-> "none", key |-> 0, exp |-> 0, at |-> 0, id |-> 0,
     found |-> NoEntry, wid |-> 0, ran |-> FALSE, raced |-> FALSE]

\* r.Intn(int(e/10 + 1)): the jitters a TTL of e seconds can get.
Jitter(e) == 0 .. (e \div 10)

\* The period of the sweeper's timer: half the default expireSec, or
\* DefaultCheckSecond.
SweepPeriod(d) == IF d > 0 THEN d \div 2 ELSE DefaultCheckSecond

\* An expiry time taken from the cache's default expireSec.
DefaultExpireTime(t, e, j) ==
    IF ccfg.expireSec # 0 THEN t + ccfg.expireSec + j ELSE NoTime

\* time.Now().Add(...) of Set and SetWithExpire for expireSec e and jitter j.
LocalExpireTime(t, e, j) == IF e # 0 THEN t + e + j ELSE NoTime

\* A Set that keeps the value of an entry that is already there.
LocalSetFirst(old, v, e, t, j) ==
    Entry(IF old.has THEN old.val ELSE v, e, LocalExpireTime(t, e, j))

\* LocalCache.Set and SetWithExpire: the entry stored, t being the time at
\* which the call read the clock.
LocalSet(old, v, e, t, j) == Entry(v, e, LocalExpireTime(t, e, j))

\* A Get that leaves the expiry time as it was.
LocalTouchNone(en, t) == en

\* LocalCache.Get on the entry it finds: the expiry time moves to
\* time.Now() + expireSec seconds (and less than a second of jitter, as the
\* jitter is not multiplied by time.Second).
LocalTouch(en, t) == IF en.exp # 0 THEN [en EXCEPT !.at = t + en.exp] ELSE en

\* setCacheStr at time t: hmset key data value exp expire, then
\* expire key expire unless expire is 0; a key that exists keeps its TTL
\* under hmset.
RedisSetCache(old, text, e, t) ==
    Entry(Val("bulk", text), e, IF e # 0 THEN t + e ELSE old.at)

\* getCacheStr at time t on the key's entry: expire key exp when the hash has
\* data and exp is not 0.
RedisGetCache(en, t) ==
    IF en.has /\ en.exp # 0 THEN [en EXCEPT !.at = t + en.exp] ELSE en

\* A Get that takes the nil reply for a reply of the wrong type.
RemoteGetStrict(b, en) ==
    IF ~en.has THEN CRet(NoVal, "ErrDataType")
    ELSE CRet(Val(IF b = "goredis" THEN "string" ELSE "bytes", en.val.x), "nil")

\* GoredisCache.Get and RedigoCache.Get on the script's reply: the nil reply
\* of a missing key is (nil, nil), the bulk reply a string or a byte slice.
RemoteGet(b, en) ==
    IF ~en.has THEN CRet(NoVal, "nil")
    ELSE CRet(Val(IF b = "goredis" THEN "string" ELSE "bytes", en.val.x), "nil")

\* The entries of store that have not expired at time t.
Unexpired(store, t) ==
    [k \in DOMAIN store |->
        IF store[k].has /\ store[k].at # NoTime /\ t > store[k].at THEN NoEntry ELSE store[k]]

CacheIdle ==
    /\ ccfg = [backend |-> "none", client |-> "nil", expireSec |-> 0] /\ now = 0 /\ cstore = <<>>
    /\ sweepAt = 0 /\ cres = NoCacheCall /\ clast = <<>> /\ ccalls = 0

LocalIdle ==
    /\ cm = 0 /\ gpc = <<>> /\ gcall = <<>> /\ spc = "off" /\ tmpDel = <<>> /\ ti = 0
    /\ cancelled = FALSE /\ expireFn = "nil" /\ notified = <<>> /\ swept = {} /\ erased = {}
    /\ eid = <<>> /\ sweepEnd = 0 /\ scan = {}

\* NewLocalCache, NewGoredisCache, NewRedigoCache: an empty cache on keys ks
\* with callers ps, the history of the calls being kept; the goroutine of
\* runExpireCheck of a LocalCache is started and has no timer yet.
CacheInitWith(c, ks, ps) ==
    /\ ccfg = c /\ now = 0 /\ cstore = [k \in ks |-> NoEntry] /\ sweepAt = NoTime
    /\ cres = NoCacheCall /\ clast = [k \in ks |-> NoLast] /\ ccalls = 0 /\ copen = 0
    /\ cm = 0 /\ gpc = [p \in ps |-> "idle"] /\ gcall = [p \in ps |-> NoLocalCall]
    /\ spc = "off" /\ tmpDel = <<>> /\ ti = 0 /\ cancelled = FALSE /\ expireFn = "nil"
    /\ notified = <<>> /\ swept = {} /\ erased = {} /\ eid = [k \in ks |-> 0]
    /\ sweepEnd = 0 /\ scan = {}

\* NewLocalCache(ctx, opts...): an empty cache, and the goroutine of
\* runExpireCheck is started; no history of the calls is kept.
LocalInit(c, fn) ==
    /\ ccfg = c /\ now = 0 /\ cstore = [k \in CacheKeys |-> NoEntry] /\ sweepAt = NoTime
    /\ cres = NoCacheCall /\ clast = <<>> /\ ccalls = 0 /\ copen = 0
    /\ cm = 0 /\ gpc = [p \in Callers |-> "idle"] /\ gcall = [p \in Callers |-> NoLocalCall]
    /\ spc = "start" /\ tmpDel = <<>> /\ ti = 0 /\ cancelled = FALSE /\ expireFn = fn
    /\ notified = <<>> /\ swept = {} /\ erased = {} /\ eid = [k \in CacheKeys |-> 0]
    /\ sweepEnd = 0 /\ scan = {}

\* The number of calls considered: MaxCacheCalls in the runs of all the
\* callers with the one-step sweeper, MaxLocalCalls in the others.
CallBound == IF spc = "off" /\ DOMAIN gpc = Callers THEN MaxCacheCalls ELSE MaxLocalCalls

\* The jittered expire argument of GoredisCache.Set (exp != 0) and
\* RedigoCache.Set (exp > 0).
SetExpire(d, j) == IF d # 0 THEN d + j ELSE d

\* An unrecovered panic has ended the program.
Crashed == \E p \in DOMAIN gpc : gpc[p] = "panicked"

\* Goroutine p is inside Intn of the cache's random source: before
\* c.m.Lock() in Set and SetWithExpire of LocalCache and before the command
\* is sent in Set of the remote caches ("rand"), under the mutex in
\* LocalCache.Get ("lrand").
InRand(p) == gpc[p] \in {"rand", "lrand"}

\* Goroutine p enters Intn (when in is true): it and every goroutine that
\* is inside Intn meanwhile use the source at the same time.
EnterRand(p, in, call) ==
    [q \in DOMAIN gpc |->
        IF q = p THEN [call EXCEPT !.raced = in /\ \E r \in DOMAIN gpc \ {p} : InRand(r)]
        ELSE IF in /\ InRand(q) THEN [gcall[q] EXCEPT !.raced = TRUE]
        ELSE gcall[q]]

\* What is kept of call c when it returns r.
Result(c, r) ==
    [op |-> c.op, key |-> c.key, ret |-> r, at |-> c.at, found |-> c.found, wid |-> c.wid,
     ran |-> c.ran]

\* Call c returns r.
Returns(c, r) == cres' = IF c.key \in DOMAIN clast THEN Result(c, r) ELSE cres

\* Call c stores its value in its key's entry, having read the clock at t;
\* e is the error it has returned, "pending" while it has not.
Stores(c, t, e) ==
    clast' = IF c.key \in DOMAIN clast
             THEN [clast EXCEPT ![c.key] = [val |-> c.val, err |-> e, has |-> TRUE,
                                            ttl |-> c.exp, touch |-> t, id |-> c.id,
                                            read |-> FALSE]]
             ELSE clast

\* Call c, a getter, looks up its key and, finding an entry, reads the clock
\* at t for its new expiry time.
Reads(c, t) ==
    clast' = IF c.key \in DOMAIN clast /\ cstore[c.key].has
             THEN [clast EXCEPT ![c.key].touch = t, ![c.key].read = TRUE]
             ELSE clast

\* Call c deletes its key's entry.
Deletes(c) ==
    clast' = IF c.key \in DOMAIN clast THEN [clast EXCEPT ![c.key] = NoLast] ELSE clast

\* The write c returns error e: it is kept with the key while c is the last
\* write of the key.
WriteReturned(c, e) ==
    IF c.key \in DOMAIN clast /\ clast[c.key].has /\ clast[c.key].id = c.id
    THEN [clast EXCEPT ![c.key].err = e]
    ELSE clast

\* Call c gets to the entries at time t and finds what its key holds.
Ran(c, t) == [c EXCEPT !.found = cstore[c.key], !.at = t, !.wid = eid[c.key], !.ran = TRUE]

\* What the steps of the callers' goroutines leave as it is.
uvars == <<bvars, qvars, evars, svars, hvars, gvars, kvars, nvars, ccfg, expireFn, now, sweepAt,
           spc, tmpDel, ti, cancelled, notified, swept, sweepEnd, scan>>

\* LocalCache.Set and SetWithExpire (o) up to c.m.Lock(): with expireSec e
\* not 0 the goroutine reads time.Now() and goes into c.r.Intn, without the
\* mutex.
LocalWriteBegin(p, o, k, v, e) ==
    /\ ~Crashed
    /\ gpc[p] = "idle"
    /\ ccalls < CallBound
    /\ ccalls' = ccalls + 1
    /\ gcall' = EnterRand(p, e # 0, [NoLocalCall EXCEPT !.op = o, !.key = k, !.val = v, !.exp = e,
                                                      !.t = IF e # 0 THEN now ELSE 0,
                                                      !.id = ccalls + 1])
    /\ gpc' = [gpc EXCEPT ![p] = IF e # 0 THEN "rand" ELSE "lock"]
    /\ UNCHANGED <<uvars, cstore, cres, clast, copen, cm, eid, erased>>

\* Where a goroutine goes when Intn has returned: to c.m.Lock() in
\* LocalCache, to the command in the remote caches.
AfterRand == IF ccfg.backend = "local" THEN "lock" ELSE "send"

\* Intn(int(e/10 + 1)) of Set and SetWithExpire returns j.
LocalRand(p, j) ==
    /\ ~Crashed
    /\ gpc[p] = "rand"
    /\ gcall' = [gcall EXCEPT ![p].j = j]
    /\ gpc' = [gpc EXCEPT ![p] = AfterRand]
    /\ UNCHANGED <<uvars, cstore, cres, clast, copen, ccalls, cm, eid, erased>>

\* Intn panics: two goroutines were in the source at the same time (the
\* source, rand.New of a rand.NewSource, is not safe for concurrent use),
\* and one of them indexes its state out of range.
LocalRandPanic(p) ==
    /\ ~Crashed
    /\ InRand(p) /\ gcall[p].raced
    /\ gpc' = [gpc EXCEPT ![p] = "panicked"]
    /\ UNCHANGED <<uvars, cstore, cres, clast, copen, ccalls, cm, gcall, eid, erased>>

\* Get, the typed getters (which call Get) and Del of LocalCache begin with
\* c.m.Lock().
LocalCallBegin(p, o, k) ==
    /\ ~Crashed
    /\ gpc[p] = "idle"
    /\ ccalls < CallBound
    /\ ccalls' = ccalls + 1
    /\ gcall' = [gcall EXCEPT ![p] = [NoLocalCall EXCEPT !.op = o, !.key = k, !.id = ccalls + 1]]
    /\ gpc' = [gpc EXCEPT ![p] = "lock"]
    /\ UNCHANGED <<uvars, cstore, cres, clast, copen, cm, eid, erased>>

\* c.m.Lock() of a caller.
LocalLock(p) ==
    /\ ~Crashed
    /\ gpc[p] = "lock"
    /\ cm = 0
    /\ cm' = p
    /\ gpc' = [gpc EXCEPT ![p] = "held"]
    /\ UNCHANGED <<uvars, cstore, cres, clast, copen, ccalls, gcall, eid, erased>>

\* The call of goroutine p has returned.
LocalReturn(p) == NoLocalCall

\* c.cache[key] = data; c.m.Unlock(); return nil.
LocalStore(p) ==
    /\ ~Crashed
    /\ gpc[p] = "held" /\ gcall[p].op \in {"Set", "SetWithExpire"}
    /\ cstore' = [cstore EXCEPT ![gcall[p].key] =
                     LocalSet(@, gcall[p].val, gcall[p].exp, gcall[p].t, gcall[p].j)]
    /\ eid' = [eid EXCEPT ![gcall[p].key] = gcall[p].id]
    /\ cm' = 0
    /\ gpc' = [gpc EXCEPT ![p] = "idle"]
    /\ gcall' = [gcall EXCEPT ![p] = LocalReturn(p)]
    /\ Returns(Ran(gcall[p], now), CRet(NoVal, "nil"))
    /\ Stores(gcall[p], gcall[p].t, "nil")
    /\ UNCHANGED <<uvars, copen, ccalls, erased>>

\* What getter g of LocalCache returns for the entry en that Get found.
LocalResult(g, en) ==
    IF ~en.has \/ en.val = NoVal THEN AbsentResult("local", g) ELSE LocalTyped(g, en.val)

\* Get under the mutex: value, ok := c.cache[key]; a missing key and an entry
\* with expireSec 0 return (the deferred Unlock runs); with expireSec not 0
\* the goroutine reads time.Now() and goes into c.r.Intn, holding the
\* mutex.
LocalLookup(p) ==
    /\ ~Crashed
    /\ gpc[p] = "held" /\ gcall[p].op \in Getters
    /\ IF cstore[gcall[p].key].has /\ cstore[gcall[p].key].exp # 0
       THEN /\ gpc' = [gpc EXCEPT ![p] = "lrand"]
            /\ gcall' = EnterRand(p, TRUE, [Ran(gcall[p], now) EXCEPT !.t = now])
            /\ cm' = cm
            /\ UNCHANGED <<cres, clast>>
       ELSE /\ gpc' = [gpc EXCEPT ![p] = "idle"]
            /\ gcall' = [gcall EXCEPT ![p] = LocalReturn(p)]
            /\ cm' = 0
            /\ Returns(Ran(gcall[p], now), LocalResult(gcall[p].op, cstore[gcall[p].key]))
            /\ Reads(gcall[p], now)
    /\ UNCHANGED <<uvars, cstore, copen, ccalls, eid, erased>>

\* data.expireTime = time.Now().Add(...), with the time read before Intn was
\* called; return data.value, nil (and the deferred Unlock).
LocalRenew(p) ==
    /\ ~Crashed
    /\ gpc[p] = "lrand"
    /\ cstore' = [cstore EXCEPT ![gcall[p].key] = LocalTouch(@, gcall[p].t)]
    /\ cm' = 0
    /\ gpc' = [gpc EXCEPT ![p] = "idle"]
    /\ gcall' = [gcall EXCEPT ![p] = LocalReturn(p)]
    /\ Returns(gcall[p], LocalResult(gcall[p].op, gcall[p].found))
    /\ Reads(gcall[p], gcall[p].t)
    /\ UNCHANGED <<uvars, copen, ccalls, eid, erased>>

\* delete(c.cache, key); c.m.Unlock(); return nil.
LocalDelete(p) ==
    /\ ~Crashed
    /\ gpc[p] = "held" /\ gcall[p].op = "Del"
    /\ cstore' = [cstore EXCEPT ![gcall[p].key] = NoEntry]
    /\ erased' = IF cstore[gcall[p].key].has THEN erased \cup {eid[gcall[p].key]} ELSE erased
    /\ cm' = 0
    /\ gpc' = [gpc EXCEPT ![p] = "idle"]
    /\ gcall' = [gcall EXCEPT ![p] = LocalReturn(p)]
    /\ Returns(Ran(gcall[p], now), CRet(NoVal, "nil"))
    /\ Deletes(gcall[p])
    /\ UNCHANGED <<uvars, copen, ccalls, eid>>

\* What getter g returns when Get returned (nil, e) with an error e: "" from
\* GetString, nil from the others.
ErrorResult(g, e) ==
    IF g = "GetString" THEN CRet(Val("string", <<>>), e) ELSE CRet(NoVal, e)

\* Operation o with expireSec e calls Intn on the cache's random source:
\* LocalCache.Set and SetWithExpire with expireSec not 0, GoredisCache.Set
\* and RedigoCache.Set with a default expireSec that is not 0.  None of them
\* holds a lock there.
CallsIntn(o, e) == e # 0 /\ (ccfg.backend = "local" \/ o = "Set")

\* A call of GoredisCache or RedigoCache (operation o on key k, with value v
\* and expireSec e for a write) up to its command: without a client
\* (c.client == nil, or a nil connection from getConn) it returns
\* ErrNoRedis; RedigoCache has got its connection c := r.getConn(); Set
\* with a default expireSec goes into Intn.
RemoteBegin(p, o, k, v, e) ==
    /\ ~Crashed
    /\ gpc[p] = "idle"
    /\ ccalls < CallBound
    /\ ccalls' = ccalls + 1
    /\ IF ccfg.client = "nil"
       THEN /\ Returns([NoLocalCall EXCEPT !.op = o, !.key = k, !.val = v, !.exp = e,
                                           !.id = ccalls + 1],
                       ErrorResult(o, "ErrNoRedis"))
            /\ UNCHANGED <<gpc, gcall, copen>>
       ELSE /\ gcall' = EnterRand(p, CallsIntn(o, e),
                                  [NoLocalCall EXCEPT !.op = o, !.key = k, !.val = v, !.exp = e,
                                                      !.id = ccalls + 1])
            /\ gpc' = [gpc EXCEPT ![p] = IF CallsIntn(o, e) THEN "rand" ELSE "send"]
            /\ copen' = IF ccfg.backend = "redigo" THEN copen + 1 ELSE copen
            /\ cres' = cres
    /\ UNCHANGED <<uvars, cstore, clast, cm, eid, erased>>

\* The server runs the command of goroutine p at the time it has: the script
\* setCacheStr of Set and SetWithExpire, getCacheStr of Get, or DEL.
\* go-redis sends nothing for a value it cannot write, and the call returns
\* that error.
RemoteRun(p) ==
    /\ ~Crashed
    /\ gpc[p] = "send"
    /\ CASE gcall[p].op \in {"Set", "SetWithExpire"} /\ ccfg.backend = "goredis"
            /\ ~GoredisCanMarshal(gcall[p].val) ->
              /\ Returns(gcall[p], CRet(NoVal, "marshal"))
              /\ gpc' = [gpc EXCEPT ![p] = "idle"]
              /\ gcall' = [gcall EXCEPT ![p] = LocalReturn(p)]
              /\ UNCHANGED <<cstore, clast, eid, erased>>
         [] gcall[p].op \in {"Set", "SetWithExpire"} ->
              /\ cstore' = [cstore EXCEPT ![gcall[p].key] =
                               RedisSetCache(@, ArgText(gcall[p].val),
                                             IF gcall[p].op = "Set"
                                             THEN SetExpire(gcall[p].exp, gcall[p].j)
                                             ELSE gcall[p].exp, now)]
              /\ eid' = [eid EXCEPT ![gcall[p].key] = gcall[p].id]
              /\ Stores(gcall[p], now, "pending")
              /\ gpc' = [gpc EXCEPT ![p] = "reply"]
              /\ gcall' = [gcall EXCEPT ![p] = Ran(@, now)]
              /\ UNCHANGED <<cres, erased>>
         [] gcall[p].op = "Del" ->
              /\ cstore' = [cstore EXCEPT ![gcall[p].key] = NoEntry]
              /\ erased' = IF cstore[gcall[p].key].has THEN erased \cup {eid[gcall[p].key]}
                           ELSE erased
              /\ Deletes(gcall[p])
              /\ gpc' = [gpc EXCEPT ![p] = "reply"]
              /\ gcall' = [gcall EXCEPT ![p] = Ran(@, now)]
              /\ UNCHANGED <<cres, eid>>
         [] OTHER ->
              /\ cstore' = [cstore EXCEPT ![gcall[p].key] = RedisGetCache(@, now)]
              /\ Reads(gcall[p], now)
              /\ gpc' = [gpc EXCEPT ![p] = "reply"]
              /\ gcall' = [gcall EXCEPT ![p] = Ran(@, now)]
              /\ UNCHANGED <<cres, eid, erased>>
    /\ UNCHANGED <<uvars, copen, ccalls, cm>>

\* The error of a write whose script has run.  setCacheStr returns nothing,
\* so the reply is nil: luaSetCache.Run(...).Err() of go-redis is redis.Nil
\* for it, the error of redigo's Do is nil.
ScriptWriteErr(b) == IF b = "goredis" THEN "redis.Nil" ELSE "nil"

\* What the call c of a remote cache of backend b returns when the reply of
\* its command has come.
RemoteResult(b, c) ==
    CASE c.op \in {"Set", "SetWithExpire"} -> CRet(NoVal, ScriptWriteErr(b))
      [] c.op = "Del" -> CRet(NoVal, "nil")
      [] RemoteGet(b, c.found) = CRet(NoVal, "nil") -> AbsentResult(b, c.op)
      [] RemoteGet(b, c.found).val = NoVal -> ErrorResult(c.op, RemoteGet(b, c.found).err)
      [] OTHER -> RemoteTyped(c.op, RemoteGet(b, c.found).val.t, RemoteGet(b, c.found).val.x)

\* The reply has come and the call returns.  No call of RedigoCache closes
\* the connection it got.
RemoteReturn(p) ==
    /\ ~Crashed
    /\ gpc[p] = "reply"
    /\ Returns(gcall[p], RemoteResult(ccfg.backend, gcall[p]))
    /\ clast' = IF gcall[p].op \in {"Set", "SetWithExpire"}
                THEN WriteReturned(gcall[p], RemoteResult(ccfg.backend, gcall[p]).err)
                ELSE clast
    /\ gpc' = [gpc EXCEPT ![p] = "idle"]
    /\ gcall' = [gcall EXCEPT ![p] = LocalReturn(p)]
    /\ UNCHANGED <<uvars, cstore, copen, ccalls, cm, eid, erased>>

\* The connection fails, before the server has got the command or with the
\* reply on its way, and the call returns the error.
RemoteFail(p) ==
    /\ ~Crashed
    /\ gpc[p] \in {"send", "reply"}
    /\ Returns(gcall[p], ErrorResult(gcall[p].op, "io"))
    /\ clast' = IF gcall[p].op \in {"Set", "SetWithExpire"} THEN WriteReturned(gcall[p], "io")
                ELSE clast
    /\ gpc' = [gpc EXCEPT ![p] = "idle"]
    /\ gcall' = [gcall EXCEPT ![p] = LocalReturn(p)]
    /\ UNCHANGED <<uvars, cstore, copen, ccalls, cm, eid, erased>>

\* Goroutine p calls Set or SetWithExpire (o) of value v on key k with
\* expireSec e.
CacheWrite(p, o, k, v, e) ==
    IF ccfg.backend = "local" THEN LocalWriteBegin(p, o, k, v, e) ELSE RemoteBegin(p, o, k, v, e)

\* Goroutine p calls Cache.Set(key, value).
CacheSet(p, k, v) == CacheWrite(p, "Set", k, v, ccfg.expireSec)

\* Goroutine p calls Cache.SetWithExpire(key, value, expireSec).
CacheSetWithExpire(p, k, v, e) == CacheWrite(p, "SetWithExpire", k, v, e)

\* Goroutine p calls Cache.Get(key) or a typed getter (g), which calls Get
\* and converts what it returns.
CacheGet(p, k, g) ==
    IF ccfg.backend = "local" THEN LocalCallBegin(p, g, k) ELSE RemoteBegin(p, g, k, NoVal, 0)

\* Goroutine p calls Cache.Del(key).
CacheDel(p, k) ==
    IF ccfg.backend = "local" THEN LocalCallBegin(p, "Del", k)
    ELSE RemoteBegin(p, "Del", k, NoVal, 0)

\* A timer that fires at once.
NewTimerNow(t, d) == t

\* time.NewTimer(d) at time t: the time the timer fires.
NewTimer(t, d) == t + d

\* LocalCache.runExpireCheck makes a timer, when it begins and at the end of
\* each sweep: the goroutine gets there when it is scheduled and when the
\* calls of expireFn have returned.
SweepTimer ==
    /\ ~Crashed
    /\ ccfg.backend = "local"
    /\ sweepAt = NoTime
    /\ sweepAt' = NewTimer(now, SweepPeriod(ccfg.expireSec))
    /\ UNCHANGED <<ccfg, now, cstore, cres, clast, ccalls, bvars, qvars, evars, svars, hvars, xvars>>

\* LocalCache.runExpireCheck, case <-timer.C, from c.m.Lock() to
\* c.m.Unlock(), which is when the timer fired or later: the entries whose
\* expireTime is not zero and has passed are deleted.  The timer is made
\* again after that.
Sweep ==
    /\ ~Crashed
    /\ ccfg.backend = "local"
    /\ sweepAt # NoTime
    /\ now >= sweepAt
    /\ cm = 0
    /\ cstore' = Unexpired(cstore, now)
    /\ sweepAt' = NoTime
    /\ UNCHANGED <<ccfg, now, cres, clast, ccalls, bvars, qvars, evars, svars, hvars, xvars>>

\* A second passes, whatever the goroutines are doing; a Redis key whose TTL
\* has passed is gone.
Pass ==
    /\ now' = now + 1
    /\ cstore' = IF ccfg.backend = "local" THEN cstore ELSE Unexpired(cstore, now + 1)
    /\ UNCHANGED <<ccfg, sweepAt, cres, clast, ccalls, bvars, qvars, evars, svars, hvars, xvars>>

LongTick ==
    /\ now < MaxLongTime
    /\ Pass

(***************************************************************************)
(* The sweeper of LocalCache step by step: the goroutine of               *)
(* runExpireCheck with the mutex c.m, the timer and the context.          *)
(***************************************************************************)

\* runExpireCheck begins: the period and the first timer.
SweeperStart ==
    /\ ~Crashed
    /\ spc = "start"
    /\ sweepAt' = NewTimer(now, SweepPeriod(ccfg.expireSec))
    /\ spc' = "wait"
    /\ UNCHANGED <<fvars, now, cstore, ccalls, cm, gpc, gcall, tmpDel, ti, cancelled, notified, swept,
                   erased, eid, sweepEnd, scan>>

\* select, case <-timer.C: the timer has fired.
SweepFire ==
    /\ ~Crashed
    /\ spc = "wait"
    /\ now >= sweepAt
    /\ spc' = "lock"
    /\ UNCHANGED <<fvars, now, cstore, sweepAt, ccalls, cm, gpc, gcall, tmpDel, ti, cancelled, notified,
                   swept, erased, eid, sweepEnd, scan>>

\* c.m.Lock() of the sweeper, and the beginning of for k, v := range c.cache:
\* the loop visits the keys the map holds, each once, in an order of the
\* map's choosing.
SweepLock ==
    /\ ~Crashed
    /\ spc = "lock"
    /\ cm = 0
    /\ cm' = Sweeper
    /\ spc' = "scan"
    /\ scan' = {k \in DOMAIN cstore : cstore[k].has}
    /\ UNCHANGED <<fvars, now, cstore, sweepAt, ccalls, gpc, gcall, tmpDel, ti, cancelled, notified,
                   swept, erased, eid, sweepEnd>>

\* The entry en is deleted by a sweep that reads the clock at t for it:
\* !data.expireTime.IsZero() && time.Now().After(data.expireTime).
Expired(en, t) == en.has /\ en.at # NoTime /\ t > en.at

\* The cacheKV appended to tmpDel for key k, with the number of the entry.
KV(k) == [k |-> k, v |-> cstore[k].val, id |-> eid[k]]

\* The entry of key k as the sweeper deletes it at time t.
Gone(k, t) ==
    [k |-> k, v |-> cstore[k].val, id |-> eid[k], exp |-> cstore[k].exp, at |-> cstore[k].at, t |-> t]

\* One turn of the loop over c.cache, under the mutex, for the key k that the
\* range yields next: the clock is read for this entry, and the entry is
\* deleted and appended to tmpDel when its expireTime has passed.
SweepScan(k) ==
    /\ ~Crashed
    /\ spc = "scan"
    /\ k \in scan
    /\ scan' = scan \ {k}
    /\ IF Expired(cstore[k], now)
       THEN /\ cstore' = [cstore EXCEPT ![k] = NoEntry]
            /\ tmpDel' = Append(tmpDel, KV(k))
            /\ swept' = swept \cup {Gone(k, now)}
       ELSE UNCHANGED <<cstore, tmpDel, swept>>
    /\ UNCHANGED <<fvars, now, sweepAt, ccalls, cm, gpc, gcall, spc, ti, cancelled, notified, erased,
                   eid, sweepEnd>>

\* The loop is over: c.m.Unlock().
SweepUnlock ==
    /\ ~Crashed
    /\ spc = "scan"
    /\ scan = {}
    /\ cm' = 0
    /\ spc' = "notify"
    /\ ti' = 1
    /\ UNCHANGED <<fvars, now, cstore, sweepAt, ccalls, gpc, gcall, tmpDel, cancelled, notified,
                   swept, erased, eid, sweepEnd, scan>>

\* for _, x := range tmpDel: c.expireFn(x.k, x.v.value) when expireFn is set.
SweepNotify ==
    /\ ~Crashed
    /\ spc = "notify"
    /\ ti <= Len(tmpDel)
    /\ notified' = IF expireFn = "fn"
                   THEN Append(notified, [k |-> tmpDel[ti].k, v |-> tmpDel[ti].v, id |-> tmpDel[ti].id,
                                          held |-> cm = Sweeper])
                   ELSE notified
    /\ ti' = ti + 1
    /\ UNCHANGED <<fvars, now, cstore, sweepAt, ccalls, cm, gpc, gcall, spc, tmpDel, cancelled, swept,
                   erased, eid, sweepEnd, scan>>

\* A sweep that leaves tmpDel as it is.
TruncateNone(t) == t

\* tmpDel = tmpDel[0:0].
Truncate(t) == <<>>

\* The end of a sweep: tmpDel is emptied and a new timer is made.
SweepReset ==
    /\ ~Crashed
    /\ spc = "notify"
    /\ ti > Len(tmpDel)
    /\ tmpDel' = Truncate(tmpDel)
    /\ ti' = 0
    /\ sweepAt' = NewTimer(now, SweepPeriod(ccfg.expireSec))
    /\ sweepEnd' = now
    /\ spc' = "wait"
    /\ UNCHANGED <<fvars, now, cstore, ccalls, cm, gpc, gcall, cancelled, notified, swept, erased, eid,
                   scan>>

\* The context passed to NewLocalCache is cancelled.
Cancel ==
    /\ ~Crashed
    /\ ~cancelled
    /\ spc # "off"
    /\ cancelled' = TRUE
    /\ UNCHANGED <<fvars, now, cstore, sweepAt, ccalls, cm, gpc, gcall, spc, tmpDel, ti, notified, swept,
                   erased, eid, sweepEnd, scan>>

\* select, case <-ctx.Done(): return.
SweepExit ==
    /\ ~Crashed
    /\ spc = "wait"
    /\ cancelled
    /\ spc' = "exit"
    /\ UNCHANGED <<fvars, now, cstore, sweepAt, ccalls, cm, gpc, gcall, tmpDel, ti, cancelled, notified,
                   swept, erased, eid, sweepEnd, scan>>

\* A second passes.
LocalPass ==
    /\ ~Crashed
    /\ spc # "off"
    /\ now < MaxLocalTime
    /\ now' = now + 1
    /\ UNCHANGED <<fvars, cstore, sweepAt, ccalls, cm, gpc, gcall, spc, tmpDel, ti, cancelled, notified,
                   swept, erased, eid, sweepEnd, scan>>

(***************************************************************************)
(* The synthetic keys of EstimateFalsePositiveRate, in the widths of the   *)
(* source: n is a uint (64 bits), the loop counters and the keys are       *)
(* uint32.                                                                 *)
(***************************************************************************)

\* rounds := uint32(100000).
rounds == <<34464, 1, 0, 0>>

\* The key of the goroutine started with counter i by the first loop:
\* binary.BigEndian.PutUint32(n1, ii).
AddKey(i) == Uint32(i)

\* The key of the goroutine started with counter i by the second loop:
\* binary.BigEndian.PutUint32(n1, ii+uint32(n)+1), in uint32 arithmetic.
TestKey(n, i) == Uint32(Add64(Add64(Uint32(i), Uint32(n)), U64(1)))

\* The arguments n and the loop counters considered: small ones, and the ones
\* around 2^32 - 100000, 2^32 - 1 and 2^32.
KeyArgs ==
    { Zero64, U64(1), U64(2), U64(1000), <<31071, 65534, 0, 0>>, <<31072, 65534, 0, 0>>,
      <<65534, 65535, 0, 0>>, <<65535, 65535, 0, 0>>, <<0, 0, 1, 0>>, <<1, 0, 1, 0>>,
      <<5, 0, 1, 0>> }
KeyCounters ==
    { Zero64, U64(1), U64(2), U64(999), <<34462, 1, 0, 0>>, <<34463, 1, 0, 0>>,
      <<65534, 65535, 0, 0>> }

KeysIdle == kn = Zero64 /\ kadd = <<>> /\ ktest = <<>> /\ kpc = "off"

SinceIdle == since = {}

ConnIdle == conn = [p \in DOMAIN pc |-> <<>>]

PoolIdle == copen = 0

ExtraIdle == KeysIdle /\ SinceIdle /\ ConnIdle /\ PoolIdle /\ LocalIdle

KeysInit == kn \in KeyArgs /\ kadd = <<>> /\ ktest = <<>> /\ kpc = "on"

\* for i := uint32(0); i < uint32(n); i++: the goroutine of counter i makes
\* its key.
KeyAdd(i) ==
    /\ kpc = "on"
    /\ Lt64(i, Uint32(kn))
    /\ kadd' = <<i, AddKey(i)>>
    /\ UNCHANGED <<kn, ktest, kpc, gvars, nvars, ovars, lvars, bvars, qvars, evars, svars, hvars, cvars>>

\* for i := uint32(0); i < rounds; i++: the goroutine of counter i makes its
\* key.
KeyTest(i) ==
    /\ kpc = "on"
    /\ Lt64(i, rounds)
    /\ ktest' = <<i, TestKey(kn, i)>>
    /\ UNCHANGED <<kn, kadd, kpc, gvars, nvars, ovars, lvars, bvars, qvars, evars, svars, hvars, cvars>>

(***************************************************************************)
(* Specifications.                                                         *)
(***************************************************************************)

vars == <<bvars, qvars, evars, svars, hvars, cvars, xvars>>

\* A filter of Configs or EstConfigs: its constructor's arguments are not kept.
NoInput == [ctor |-> "none"]

SizeIdle == sin = NoInput

LocIdle ==
    /\ qh = baseHashes(1) /\ qi = 0 /\ qm = U64(1)
    /\ qpc = "off" /\ qlocal = Zero64 /\ qremote = Zero64

Init == (\E f \in Configs : BloomInitWith(f, Procs)) /\ LocIdle /\ EstIdle /\ SizeIdle /\ ShareIdle /\ CacheIdle /\ ExtraIdle

Next ==
    \/ \E p \in Procs, x \in Keys : Add(p, x)
    \/ \E p \in Procs, x \in Keys : Test(p, x)
    \/ \E p \in Procs, x \in Keys : TestAndAdd(p, x)
    \/ \E p \in Procs : ClearAll(p)
    \/ \E p \in Procs : K(p)
    \/ \E p \in Procs : Cap(p)
    \/ \E p \in Procs : SizeStep(p)
    \/ \E p \in Procs : Lock(p)
    \/ \E p \in Procs : SetAllStep(p)
    \/ \E p \in Procs : TestAllStep(p)
    \/ \E p \in Procs : TestAddAllStep(p)
    \/ \E p \in Procs : ClearAllStep(p)
    \/ \E p \in Procs : ServerRun(p)
    \/ \E p \in Procs : Receive(p)
    \/ \E p \in Procs : TransportFail(p)
    \/ \E p \in Procs : Return(p)

Spec == Init /\ [][Next]_vars

LocOnly == LocInit /\ BloomInitWith(NewLocal(Zero64, 0), {}) /\ EstIdle /\ SizeIdle /\ ShareIdle /\ CacheIdle /\ ExtraIdle

SpecLoc == LocOnly /\ [][LocNext]_vars

InitEst == (\E f \in EstConfigs : BloomInitWith(f, EstProcs)) /\ LocIdle /\ EstInit /\ SizeIdle /\ ShareIdle /\ CacheIdle /\ ExtraIdle

NextEst ==
    \/ EstClearAll
    \/ EstCleared
    \/ EstSpawnAdd
    \/ EstWaitAdds
    \/ EstSpawnTest
    \/ EstWaitTests
    \/ \E w \in EstWorkers : WorkerCall(w)
    \/ \E w \in EstWorkers : WorkerReturned(w)
    \/ \E w \in EstWorkers : WorkerRecv(w)
    \/ \E w \in EstWorkers : WorkerDone(w)
    \/ \E p \in EstProcs : Lock(p)
    \/ \E p \in EstProcs : SetAllStep(p)
    \/ \E p \in EstProcs : TestAllStep(p)
    \/ \E p \in EstProcs : ClearAllStep(p)
    \/ \E p \in EstProcs : ServerRun(p)
    \/ \E p \in EstProcs : Receive(p)
    \/ \E p \in EstProcs : TransportFail(p)

SpecEst == InitEst /\ [][NextEst]_vars

\* A step of the goroutine that runs EstimateFalsePositiveRate, or of the
\* goroutine w it started: a statement of its own, or a step of the call it
\* is making.
CallStep(p) ==
    \/ Lock(p) \/ SetAllStep(p) \/ TestAllStep(p) \/ ClearAllStep(p)
    \/ ServerRun(p) \/ Receive(p)

EstMainStep ==
    \/ EstClearAll \/ EstCleared \/ EstSpawnAdd \/ EstWaitAdds
    \/ EstSpawnTest \/ EstWaitTests \/ CallStep(EstMain)

WorkerStep(w) ==
    \/ WorkerCall(w) \/ WorkerReturned(w) \/ WorkerRecv(w) \/ WorkerDone(w)
    \/ CallStep(w)

\* EstimateFalsePositiveRate under fair scheduling: a goroutine that can take
\* a step takes one (the Go scheduler is fair to runnable goroutines, and
\* the server answers a command it was sent).
EstFairness == WF_vars(EstMainStep) /\ \A w \in EstWorkers : WF_vars(WorkerStep(w))

SpecEstFair == InitEst /\ [][NextEst]_vars /\ EstFairness

\* No filter and no cache.
NoBloomOrCache ==
    /\ BloomInitWith(NewLocal(Zero64, 0), {}) /\ LocIdle /\ EstIdle /\ SizeIdle /\ ShareIdle
    /\ CacheIdle

InitKeys == KeysInit /\ NoBloomOrCache /\ SinceIdle /\ ConnIdle /\ PoolIdle /\ LocalIdle

NextKeys ==
    \/ \E i \in KeyCounters : KeyAdd(i)
    \/ \E i \in KeyCounters : KeyTest(i)

SpecKeys == InitKeys /\ [][NextKeys]_vars

InitShare ==
    /\ ShareInit /\ BloomInitWith(insts[1], 1 .. 2)
    /\ LocIdle /\ EstIdle /\ SizeIdle /\ CacheIdle /\ ExtraIdle

NextShare ==
    \/ \E a \in 1 .. 2, x \in Keys : ShareAdd(a, x)
    \/ \E a \in 1 .. 2, x \in Keys : ShareTest(a, x)
    \/ \E a \in 1 .. 2, x \in Keys : ShareTestAndAdd(a, x)
    \/ \E a \in 1 .. 2 : ShareClearAll(a)
    \/ \E a \in 1 .. 2 : ServerRun(a)
    \/ \E a \in 1 .. 2 : Receive(a)
    \/ \E a \in 1 .. 2 : TransportFail(a)
    \/ \E a \in 1 .. 2 : Return(a)

SpecShare == InitShare /\ [][NextShare]_vars

(***************************************************************************)
(* One in-process filter under a fair scheduler.  A goroutine that can     *)
(* take a step of its call under the mutex eventually takes it (the Go     *)
(* scheduler preempts and runs every runnable goroutine), and a goroutine  *)
(* waiting in l.mtx.Lock() eventually gets the mutex if it is freed again  *)
(* and again (sync.Mutex hands the mutex to a waiter that has waited long, *)
(* its starvation mode).  Nothing obliges a caller to begin a call.        *)
(***************************************************************************)

LocalConfigs == { f \in Configs : f.backend = "local" }

InitLocal ==
    (\E f \in LocalConfigs : BloomInitWith(f, Procs)) /\ LocIdle /\ EstIdle /\ SizeIdle /\ ShareIdle /\ CacheIdle /\ ExtraIdle

NextLocal ==
    \/ \E p \in Procs, x \in Keys : Add(p, x)
    \/ \E p \in Procs, x \in Keys : Test(p, x)
    \/ \E p \in Procs, x \in Keys : TestAndAdd(p, x)
    \/ \E p \in Procs : ClearAll(p)
    \/ \E p \in Procs : K(p)
    \/ \E p \in Procs : Cap(p)
    \/ \E p \in Procs : Lock(p)
    \/ \E p \in Procs : SetAllStep(p)
    \/ \E p \in Procs : TestAllStep(p)
    \/ \E p \in Procs : TestAddAllStep(p)
    \/ \E p \in Procs : ClearAllStep(p)
    \/ \E p \in Procs : SizeStep(p)
    \/ \E p \in Procs : Return(p)

\* A step of goroutine p's call between l.mtx.Lock() and its return.
Run(p) ==
    SetAllStep(p) \/ TestAllStep(p) \/ TestAddAllStep(p) \/ ClearAllStep(p) \/ SizeStep(p)

Fairness == \A p \in Procs : WF_vars(Run(p)) /\ SF_vars(Lock(p))

SpecFair == InitLocal /\ [][NextLocal]_vars /\ Fairness

(***************************************************************************)
(* The bindings' reading of a reply.  Here the server answers a TestAll or  *)
(* TestAddAll script with any reply of the protocol: an integer, a bulk    *)
(* string, a status, nil, an array or an error.                            *)
(***************************************************************************)

Replies ==
    {[kind |-> "int", val |-> v] : v \in {-1, 0, 1, 2}}
        \cup {[kind |-> "bulk", val |-> i] : i \in DOMAIN BulkTexts}
        \cup {[kind |-> kd, val |-> 0] : kd \in {"status", "nil", "array", "err"}}

ReplyConfigs == { NewGoredis(U64(5), 3, "client"), NewRedisgo(U64(5), 3, "conn") }

\* The server answers goroutine p's script with reply r, the bit array as it
\* was.
AnyReply(p, r) ==
    /\ pc[p] = "sent"
    /\ ServerDone(p, [bits |-> bits, reply |-> r, n |-> 0])
    /\ UNCHANGED <<qvars, evars, svars, hvars, cvars, xvars, blen, filter, mtx, op, key, present, ret,
                   gflag, cflag, added, clean, wiped, ncalls>>

InitReply ==
    (\E f \in ReplyConfigs : BloomInitWith(f, {1})) /\ LocIdle /\ EstIdle /\ SizeIdle /\ ShareIdle /\ CacheIdle /\ ExtraIdle

NextReply ==
    \/ \E x \in Keys : Test(1, x)
    \/ \E x \in Keys : TestAndAdd(1, x)
    \/ \E r \in Replies : AnyReply(1, r)
    \/ Receive(1)
    \/ Return(1)

SpecReply == InitReply /\ [][NextReply]_vars

(***************************************************************************)
(* A cache of each backend with its callers; one with the clock and the    *)
(* sweeper; and a cache without expiry holding values of every type, read  *)
(* through every getter.                                                   *)
(***************************************************************************)

\* The values written in the runs with a clock, and in the runs without.
CacheVals == { Val("int", <<"3">>), Val("string", TextAbc) }

TypedVals ==
    { Val("int", <<"3">>), Val("int", <<"1">>), Val("int64", <<"1">>), Val("uint64", <<"3">>),
      Val("float64", <<"1", ".", "5">>), Val("float64", <<"1">>),
      Val("string", TextAbc), Val("string", <<"1">>), Val("string", <<"3">>),
      Val("string", TextTrue), Val("string", <<>>), Val("bytes", TextAbc),
      Val("bool", TextTrue), Val("bool", TextFalse), Val("struct", <<"{", "}">>),
      Val("string", <<"1", "e", "5">>), Val("string", <<"+", "-", "1">>),
      Val("string", TextInf), Val("string", <<"0", "x", "1", "p", "4">>),
      Val("string", <<"1", "e", "4", "0", "0">>), Val("string", MinInt64Mag),
      Val("string", MaxUint64Text \o <<"9", "x">>), Val("uint", MaxUint64Text),
      Val("uint", MinInt64Mag), Val("uint", <<"3">>) }

\* The value each caller writes.
CallerVal(p) == IF p = 1 THEN Val("int", <<"3">>) ELSE Val("string", TextAbc)

\* Nothing but a cache.
NoBloomOrKeys ==
    /\ BloomInitWith(NewLocal(Zero64, 0), {}) /\ LocIdle /\ EstIdle /\ SizeIdle /\ ShareIdle
    /\ KeysIdle /\ SinceIdle /\ ConnIdle /\ PoolIdle

\* A step of the call goroutine p is making on a LocalCache.
CallerStep(p) ==
    \/ \E j \in Jitter(gcall[p].exp) : LocalRand(p, j)
    \/ LocalLock(p)
    \/ LocalStore(p)
    \/ LocalLookup(p)
    \/ LocalRenew(p)
    \/ LocalDelete(p)

\* A step of the call goroutine p is making on a remote cache, of the server
\* for it, or the failure of its connection.
RemoteStep(p) ==
    \/ RemoteRun(p)
    \/ RemoteReturn(p)
    \/ RemoteFail(p)

\* The caller of the runs with one caller.
OneCaller == {1}

\* The callers at work at the same time on the keys of a cache whose default
\* expireSec has no jitter, within one second: nothing expires.
InitCache ==
    /\ \E c \in CacheConfigs \cup NilConfigs :
          c.expireSec \in ShortDefaults /\ CacheInitWith(c, CacheKeys, Callers)
    /\ NoBloomOrKeys

NextCache ==
    \/ \E p \in Callers, k \in CacheKeys : CacheSet(p, k, CallerVal(p))
    \/ \E p \in Callers, k \in CacheKeys, e \in ShortTTLs : CacheSetWithExpire(p, k, CallerVal(p), e)
    \/ \E p \in Callers, k \in CacheKeys : CacheGet(p, k, "Get")
    \/ \E p \in Callers, k \in CacheKeys : CacheDel(p, k)
    \/ \E p \in Callers : CallerStep(p)
    \/ \E p \in Callers : RemoteStep(p)
    \/ \E p \in Callers : LocalRandPanic(p)

SpecCache == InitCache /\ [][NextCache]_vars

\* One key read through every getter by one caller, on caches without a
\* default expireSec and with one that has a jitter, up to MaxLongTime.
InitExpire ==
    /\ \E c \in CacheConfigs \cup NilConfigs :
          c.expireSec \in LongDefaults /\ CacheInitWith(c, {1}, OneCaller)
    /\ NoBloomOrKeys

NextExpire ==
    \/ CacheSet(1, 1, Val("int", <<"3">>))
    \/ \E e \in ShortTTLs : CacheSetWithExpire(1, 1, Val("int", <<"3">>), e)
    \/ \E g \in Getters : CacheGet(1, 1, g)
    \/ CacheDel(1, 1)
    \/ CallerStep(1)
    \/ RemoteStep(1)
    \/ SweepTimer
    \/ Sweep
    \/ LongTick

SpecExpire == InitExpire /\ [][NextExpire]_vars

\* Values of every type read through every getter by one caller, on caches
\* without a default expireSec.
InitTyped ==
    /\ \E c \in CacheConfigs \cup NilConfigs :
          c.expireSec = 0 /\ CacheInitWith(c, CacheKeys, OneCaller)
    /\ NoBloomOrKeys

NextTyped ==
    \/ \E k \in CacheKeys, v \in TypedVals : CacheSet(1, k, v)
    \/ \E k \in CacheKeys, g \in Getters : CacheGet(1, k, g)
    \/ \E k \in CacheKeys : CacheDel(1, k)
    \/ LocalLock(1)
    \/ LocalStore(1)
    \/ LocalLookup(1)
    \/ LocalDelete(1)
    \/ RemoteStep(1)

SpecTyped == InitTyped /\ [][NextTyped]_vars

\* The expireSec arguments of SetWithExpire in these runs.
SweepTTLs == {0, 1}

\* A LocalCache built with LocalExpireNotify, with its callers and its
\* sweeper, step by step, the context not cancelled.
InitSweep == (\E c \in LocalCacheConfigs : LocalInit(c, "fn")) /\ NoBloomOrKeys

SweeperStep ==
    \/ SweeperStart
    \/ SweepFire
    \/ \E k \in CacheKeys : SweepScan(k)
    \/ SweepUnlock
    \/ SweepNotify
    \/ SweepReset

NextSweep ==
    \/ \E p \in Callers, k \in CacheKeys : LocalWriteBegin(p, "Set", k, CallerVal(p), ccfg.expireSec)
    \/ \E p \in Callers, k \in CacheKeys, e \in SweepTTLs :
           LocalWriteBegin(p, "SetWithExpire", k, CallerVal(p), e)
    \/ \E p \in Callers, k \in CacheKeys : LocalCallBegin(p, "Get", k)
    \/ \E p \in Callers, k \in CacheKeys : LocalCallBegin(p, "Del", k)
    \/ \E p \in Callers : CallerStep(p)
    \/ \E p \in Callers : LocalRandPanic(p)
    \/ SweeperStep
    \/ SweepLock
    \/ LocalPass

SpecSweep == InitSweep /\ [][NextSweep]_vars

\* A goroutine that can run does run; the mutex is handed to a goroutine that
\* keeps waiting for it (sync.Mutex's starvation mode), and a select whose
\* cases are ready again and again takes each of them (its choice is random).
SweepFairness ==
    /\ \A p \in Callers : WF_vars(CallerStep(p))
    /\ WF_vars(SweeperStep)
    /\ SF_vars(SweepLock)
    /\ SF_vars(SweepExit)

\* The runs under the fair scheduler, with and without LocalExpireNotify: the
\* callers' calls are Set, Get and Del on one key, and the context can be
\* cancelled.
InitShut == (\E c \in LocalCacheConfigs, fn \in ExpireFns : LocalInit(c, fn)) /\ NoBloomOrKeys

NextShut ==
    \/ \E p \in Callers : LocalWriteBegin(p, "Set", 1, CallerVal(p), ccfg.expireSec)
    \/ \E p \in Callers : LocalCallBegin(p, "Get", 1)
    \/ \E p \in Callers : LocalCallBegin(p, "Del", 1)
    \/ \E p \in Callers : CallerStep(p)
    \/ \E p \in Callers : LocalRandPanic(p)
    \/ SweeperStep
    \/ SweepLock
    \/ Cancel
    \/ SweepExit
    \/ LocalPass

SpecSweepFair == InitShut /\ [][NextShut]_vars /\ SweepFairness

(***************************************************************************)
(* Construction: every constructor on a range of arguments, followed by    *)
(* K() and Cap() calls on the filter it built.                             *)
(***************************************************************************)

\* EstimateParameters(n, p) on the arguments of EstimateArgs, as IEEE doubles
\* give it: m = uint(ceil(-n * ln p / (ln 2)^2)), k = uint(ceil(ln 2 * m / n)).
\* p is written as its decimal literal.  With p = 1.0, ln p = 0 and both are 0.
EstimateArgs ==
    { <<1000, "0.01">>, <<1000, "0.001">>, <<10, "0.1">>, <<1, "0.5">>,
      <<3, "0.9">>, <<5, "1.0">> }

\* An estimator that rounds down where EstimateParameters rounds up.
EstimateFloor(n, p) ==
    CASE <<n, p>> = <<1000, "0.01">>  -> <<U64(9585), 6>>
      [] <<n, p>> = <<1000, "0.001">> -> <<U64(14377), 9>>
      [] <<n, p>> = <<10, "0.1">>     -> <<U64(47), 3>>
      [] OTHER                        -> <<U64(1), 1>>

EstimateParameters(n, p) ==
    CASE <<n, p>> = <<1000, "0.01">>  -> <<U64(9586), 7>>
      [] <<n, p>> = <<1000, "0.001">> -> <<U64(14378), 10>>
      [] <<n, p>> = <<10, "0.1">>     -> <<U64(48), 4>>
      [] <<n, p>> = <<1, "0.5">>      -> <<U64(2), 2>>
      [] <<n, p>> = <<3, "0.9">>      -> <<U64(1), 1>>
      [] <<n, p>> = <<5, "1.0">>      -> <<Zero64, 0>>

\* The constructors that size the filter from (n, prob).
NewLocalWithEstimates(n, prob) ==
    NewLocal(EstimateParameters(n, prob)[1], EstimateParameters(n, prob)[2])
NewGoredisWithEstimates(n, prob, client) ==
    NewGoredis(EstimateParameters(n, prob)[1], EstimateParameters(n, prob)[2], client)
NewRedisgoWithEstimates(n, prob, getConn) ==
    NewRedisgo(EstimateParameters(n, prob)[1], EstimateParameters(n, prob)[2], getConn)

\* The (m, k) arguments of the plain constructors.
SizeM == { Zero64, U64(1), U64(5), <<0, 0, 2, 0>> }
SizeK == { 0, 1, 3 }

\* The filter backend c's constructor builds from (m, k).
Construct(c, m, k) ==
    CASE c = "local"   -> NewLocal(m, k)
      [] c = "goredis" -> NewGoredis(m, k, "client")
      [] c = "redigo"  -> NewRedisgo(m, k, "conn")

\* The filter backend c's WithEstimates constructor builds from (n, fp).
ConstructWithEstimates(c, n, prob) ==
    CASE c = "local"   -> NewLocalWithEstimates(n, prob)
      [] c = "goredis" -> NewGoredisWithEstimates(n, prob, "client")
      [] c = "redigo"  -> NewRedisgoWithEstimates(n, prob, "conn")

\* A filter fresh from a constructor; sin keeps the (m, k) the constructor
\* was given, or the (n, p) it was given and the (m, k) the estimator gave it.
SizeInit ==
    \/ \E c \in Backends, m \in SizeM, k \in SizeK :
          /\ sin = [ctor |-> c, est |-> FALSE, n |-> 0, p |-> "", m |-> m, k |-> k]
          /\ BloomInitWith(Construct(c, m, k), Procs)
    \/ \E c \in Backends, a \in EstimateArgs :
          /\ sin = [ctor |-> c, est |-> TRUE, n |-> a[1], p |-> a[2],
                    m |-> EstimateParameters(a[1], a[2])[1],
                    k |-> EstimateParameters(a[1], a[2])[2]]
          /\ BloomInitWith(ConstructWithEstimates(c, a[1], a[2]), Procs)

InitSize == SizeInit /\ LocIdle /\ EstIdle /\ ShareIdle /\ CacheIdle /\ ExtraIdle

NextSize ==
    \/ \E p \in Procs : K(p)
    \/ \E p \in Procs : Cap(p)
    \/ \E p \in Procs : Lock(p)
    \/ \E p \in Procs : SizeStep(p)
    \/ \E p \in Procs : Return(p)

SpecSize == InitSize /\ [][NextSize]_vars

(***************************************************************************)
(* Claims.                                                                 *)
(***************************************************************************)

\* The bit indices the filter's backend uses for key x, and the indices
\* location(h, i) mod m of key x.
KeyLocs(x) == {LocOf(filter, baseHashes(x), i) : i \in 0 .. (filter.k - 1)}
ModLocs(x) == {LocalLocAt(baseHashes(x), i, filter.m) : i \in 0 .. (filter.k - 1)}

\* Goroutine p's call of operation o has returned without error.
Returned(p, o) == pc[p] = "returned" /\ op[p] = o /\ ret[p].err = "nil"

\* C1: no false negatives.  On every backend, a Test(x) that begins after an
\* Add(x) or TestAndAdd(x) has returned without error, with no ClearAll begun
\* since that call began, and that returns without error, returns true,
\* whatever other calls run meanwhile.
C1_NoFalseNegatives ==
    \A p \in DOMAIN pc : (Returned(p, "TestAll") /\ gflag[p]) => ret[p].val

\* A Test of a key added before returns true on a remote backend while
\* another goroutine's call is under way.
C1_Witness ==
    \E p, q \in DOMAIN pc :
        /\ Returned(p, "TestAll") /\ gflag[p] /\ ret[p].val
        /\ filter.backend # "local"
        /\ pc[q] \in {"sent", "reply"}

\* C2: atomic test-and-add.  Of two TestAndAdd(x) calls that have returned
\* without error, with no ClearAll since either began, at most one returned
\* false; and when x tested absent before the first of them took effect, the
\* first returned false and the other true.
C2_AtomicTestAndAdd ==
    \A p, q \in DOMAIN pc :
        (/\ p # q
         /\ Returned(p, "TestAddAll") /\ Returned(q, "TestAddAll")
         /\ key[p] = key[q]
         /\ gflag[p] /\ gflag[q])
        => /\ ret[p].val \/ ret[q].val
           /\ (post[p] \subseteq snap[q] /\ ~(KeyLocs(key[p]) \subseteq snap[p]))
              => (~ret[p].val /\ ret[q].val)

\* Two TestAndAdd calls of one key, absent before, have both returned: one
\* false, one true.
C2_Witness ==
    \E p, q \in DOMAIN pc :
        /\ p # q
        /\ Returned(p, "TestAddAll") /\ Returned(q, "TestAddAll")
        /\ key[p] = key[q]
        /\ gflag[p] /\ gflag[q]
        /\ ~ret[p].val /\ ret[q].val
        /\ post[p] \subseteq snap[q]

\* C3: a TestAndAdd(x) that returns without error returns what Test(x) returns
\* on the bit array as it was when the call took effect (all of x's bits set),
\* and leaves that bit array with x's bits added and nothing else changed.
C3_TestAndAddIsTestThenAdd ==
    \A p \in DOMAIN pc :
        Returned(p, "TestAddAll")
        => /\ ret[p].val = (KeyLocs(key[p]) \subseteq snap[p])
           /\ post[p] = snap[p] \cup KeyLocs(key[p])

\* A TestAndAdd has returned false for a key two of whose k indices are the
\* same bit, that bit being 0 before the call.
C3_Witness ==
    \E p \in DOMAIN pc :
        /\ Returned(p, "TestAddAll")
        /\ ~ret[p].val
        /\ \E i, j \in 0 .. (filter.k - 1) :
              /\ i < j
              /\ LocOf(filter, baseHashes(key[p]), i) = LocOf(filter, baseHashes(key[p]), j)
              /\ LocOf(filter, baseHashes(key[p]), i) \notin snap[p]

\* C4: clear resets membership.  On every backend, a Test that begins after a
\* ClearAll has returned without error, with no Add or TestAndAdd under way
\* or begun since that ClearAll began, and that returns without error,
\* returns false.
C4_ClearResets ==
    \A p \in DOMAIN pc : (Returned(p, "TestAll") /\ cflag[p]) => ~ret[p].val

\* A Test after a ClearAll has returned false for a key that had been added
\* before the ClearAll.
C4_Witness ==
    \E p \in DOMAIN pc :
        Returned(p, "TestAll") /\ cflag[p] /\ key[p] \in wiped /\ ~ret[p].val

\* C5: for every HashQuad h, every index i and every m >= 1, the bit index the
\* remote script computes from the arguments the client sends equals the
\* in-process index location(h, i) mod m.
C5_LocationAgreement == qpc = "out" => qremote = qlocal

\* C6: on a remote filter built without a client handle, or whose getter
\* yields no connection, every call returns ErrNoRedis with result false,
\* without a panic and with the bit array untouched.
C6_NoBackendError ==
    \A p \in DOMAIN pc :
        (filter.handle \in {"nil", "noconn"} /\ InFlight(p) /\ op[p] \notin {"K", "M"})
        => (pc[p] = "returned" /\ ret[p] = Fail("ErrNoRedis") /\ bits = {})

\* C7: a Test(x) that returns without error returns true if and only if all of
\* the bits location(h(x), i) mod m, i in [0, k), were set when it took
\* effect.
C7_TestIffAllBitsSet ==
    \A p \in DOMAIN pc :
        Returned(p, "TestAll") => (ret[p].val = (ModLocs(key[p]) \subseteq snap[p]))

\* C8: no SetAll or TestAddAll applies in part.  While one runs its loop under
\* the mutex no other call is in its loop, and once one has run on the server
\* or has returned (with an error or without) it has set none or all of
\* its k bits.
C8_NoPartialApply ==
    \A p \in DOMAIN pc :
        op[p] \in Mutators
        => /\ pc[p] = "loop" => \A q \in DOMAIN pc \ {p} : pc[q] # "loop"
           /\ pc[p] \in {"reply", "returned"} => idx[p] \in {0, filter.k}

\* C9: every error of the server reaches the caller of the call, and
\* EstimateFalsePositiveRate returns no rate when one of the ClearAll, Add
\* or Test calls it made returned an error.
C9_ErrorsPropagate ==
    /\ \A p \in DOMAIN pc :
          (pc[p] = "returned" /\ reply[p].kind = "err") => ret[p].err # "nil"
    /\ (epc = "done" /\ fpRate # <<>>) => ~masked

\* What operation o on key x returns and leaves when it runs alone on the bit
\* array b.
AtomicRet(o, x, b) ==
    IF o \in {"TestAll", "TestAddAll"} THEN Ok(KeyLocs(x) \subseteq b) ELSE Ok(FALSE)
AtomicPost(o, x, b) ==
    CASE o \in Mutators  -> b \cup KeyLocs(x)
      [] o = "ClearAll"  -> {}
      [] OTHER           -> b

\* C10: the in-process backend is linearizable.  Every call takes effect at
\* one point between its begin and its return: its result and the bit array
\* it leaves are those of the operation run alone on the bit array the call
\* before it left, and whenever the mutex is free the bit array is the one
\* the last call left.
C10_LocalLinearizable ==
    filter.backend = "local"
    => /\ mtx = 0 => bits = committed
       /\ \A p \in DOMAIN pc :
             pc[p] = "loop" => (mtx = p /\ snap[p] = committed)
       /\ \A p \in DOMAIN pc :
             pc[p] = "returned"
             => /\ ret[p] = AtomicRet(op[p], key[p], snap[p])
                /\ post[p] = AtomicPost(op[p], key[p], snap[p])

\* On the in-process backend a Test has returned what the Add of another
\* goroutine, returned too, left, while a third call waits for the mutex or
\* these are the only two goroutines.
C10_Witness ==
    \E p, q \in DOMAIN pc :
        /\ filter.backend = "local"
        /\ p # q
        /\ pc[p] = "returned" /\ op[p] \in Mutators
        /\ pc[q] = "returned" /\ op[q] = "TestAll"
        /\ post[p] # snap[p]
        /\ snap[q] = post[p]
        /\ ret[q].val

\* C11: remote instances on one identifier share one logical filter,
\* whatever m and k each was built with: a Test(x) through any instance that
\* returns without error returns true when it began after an Add(x) through
\* any instance had returned without error, with no ClearAll begun since, and
\* false when it began after a ClearAll through any instance had returned
\* without error, with no Add or TestAndAdd under way or begun since.
C11_SharedFilter ==
    \A p \in DOMAIN pc :
        Returned(p, "TestAll")
        => /\ gflag[p] => ret[p].val
           /\ cflag[p] => ~ret[p].val

\* The operations that run as one script.
ScriptOps == {"SetAll", "TestAll", "TestAddAll"}

\* C12: the remote backend is linearizable for Add, Test and TestAndAdd.  The
\* bit array changes only by whole commands; a script that has run without
\* error has left the bit array the operation leaves when run alone on the
\* bit array the command before it left, and a call that has returned without
\* error has returned the result of that operation run alone.
C12_RemoteLinearizable ==
    filter.backend # "local"
    => /\ bits = committed
       /\ \A p \in DOMAIN pc :
             (/\ pc[p] \in {"reply", "returned"}
              /\ op[p] \in ScriptOps
              /\ reply[p].kind \in {"nil", "int"})
             => post[p] = AtomicPost(op[p], key[p], snap[p])
       /\ \A p \in DOMAIN pc :
             (pc[p] = "returned" /\ op[p] \in ScriptOps /\ ret[p].err = "nil")
             => ret[p] = AtomicRet(op[p], key[p], snap[p])

\* On a remote backend a Test has returned true on the bit array that the
\* TestAndAdd of another goroutine, which returned false, left.
C12_Witness ==
    \E p, q \in DOMAIN pc :
        /\ filter.backend # "local"
        /\ p # q
        /\ Returned(p, "TestAddAll") /\ ~ret[p].val
        /\ Returned(q, "TestAll") /\ ret[q].val
        /\ snap[q] = post[p]

\* Goroutine p takes the step.
StepOf(p) == <<pc[p], idx[p]>> # <<pc'[p], idx'[p]>>

\* C13: Test never mutates state.  No step of a Test call, on any backend and
\* whatever it returns, changes the bit array, its length or the filter's
\* parameters; a remote Test on an identifier without a key leaves it without.
C13_TestNeverMutates ==
    [][\A p \in DOMAIN pc :
          ((op[p] = "TestAll" \/ op'[p] = "TestAll") /\ StepOf(p))
          => (bits' = bits /\ blen' = blen /\ filter' = filter)]_vars

\* A remote Test has run on an identifier that has no key and has returned
\* false, and there is no key still.
C13_Witness ==
    \E p \in DOMAIN pc :
        /\ filter.backend # "local"
        /\ Returned(p, "TestAll") /\ ~ret[p].val
        /\ reply[p].kind = "int"
        /\ snap[p] = {} /\ bits = {}

\* What Add on hashes h leaves of bit array b, run alone on filter f.
AddAll(f, h, b) ==
    IF f.backend = "local" THEN LocalSetAll(b, h, 0, f.k, f.m)
    ELSE LuaSetAll(b, ScriptArgs(f.k, f.m, h), 0).bits

\* C14: Add is idempotent.  An Add(x) run again on the bit array an error-free
\* Add(x) or TestAndAdd(x) has left leaves it as it is, and an Add(x) or
\* TestAndAdd(x) on a bit array where x tests present changes no bit.
C14_AddIdempotent ==
    \A p \in DOMAIN pc :
        (pc[p] = "returned" /\ op[p] \in Mutators /\ ret[p].err = "nil")
        => /\ AddAll(filter, HashOf(p), post[p]) = post[p]
           /\ KeyLocs(key[p]) \subseteq snap[p] => post[p] = snap[p]

\* An Add of a key added before, with no ClearAll since, has returned and has
\* changed no bit.
C14_Witness ==
    \E p \in DOMAIN pc :
        /\ Returned(p, "SetAll")
        /\ key[p] \in added /\ gflag[p]
        /\ snap[p] # {}
        /\ post[p] = snap[p]

\* C15: whatever constructor built the filter and whatever (m, k) it was given
\* or estimated, zeros included, K() returns k floored to 1 and Cap() returns
\* m floored to 1, and both are at least 1.
C15_SizingFloors ==
    \A p \in DOMAIN pc :
        /\ Returned(p, "K") =>
              /\ size[p] = (IF sin.k < 1 THEN U64(1) ELSE U64(sin.k))
              /\ Lt64(Zero64, size[p])
        /\ Returned(p, "M") =>
              /\ size[p] = (IF Lt64(sin.m, U64(1)) THEN U64(1) ELSE sin.m)
              /\ Lt64(Zero64, size[p])

\* K() has returned on a filter whose constructor was given k = 0 and m = 0.
C15_Witness ==
    \E p \in DOMAIN pc :
        /\ sin # NoInput /\ sin.k = 0 /\ sin.m = Zero64
        /\ Returned(p, "K") /\ size[p] = U64(1)

\* C16: the parameters never change.  No step changes the filter's (m, k) or
\* the length of the in-process bitset, which stays the m of construction
\* with every set bit below it, and every K() and Cap() returns the k and m
\* of construction whatever calls came before.
ParametersKept ==
    /\ filter.backend = "local" =>
          /\ blen = filter.m
          /\ \A loc \in bits : Lt64(loc, filter.m)
    /\ \A p \in DOMAIN pc :
          /\ Returned(p, "K") => size[p] = U64(filter.k)
          /\ Returned(p, "M") => size[p] = filter.m

C16_ParametersImmutable ==
    /\ []ParametersKept
    /\ [][filter' = filter /\ blen' = blen]_vars

\* Cap() has returned on an in-process filter that holds a key's bits and has
\* been cleared at least once before.
C16_Witness ==
    \E p \in DOMAIN pc :
        /\ filter.backend = "local" /\ Returned(p, "M")
        /\ bits # {} /\ wiped # {}
        /\ size[p] = filter.m

\* C17: on an in-process filter with concurrent callers of Add, Test,
\* TestAndAdd, ClearAll, K and Cap, under fair scheduling every call that has
\* begun returns, the mutex is held only by a goroutine inside its call, and
\* it is free whenever no call is in progress.
InProgress(p) == pc[p] \in {"lock", "loop"}

MutexReleased ==
    /\ mtx # 0 => pc[mtx] = "loop"
    /\ (\A p \in DOMAIN pc : ~InProgress(p)) => mtx = 0

C17_NoBlocking ==
    /\ []MutexReleased
    /\ \A p \in Procs : InProgress(p) ~> (pc[p] = "returned")

\* A Test has returned false from inside its loop, on the first unset bit,
\* and the mutex is free while another goroutine is waiting for it.
C17_Witness ==
    \E p, q \in DOMAIN pc :
        /\ p # q /\ filter.backend = "local"
        /\ pc[p] = "returned" /\ op[p] = "TestAll"
        /\ ret[p] = Ok(FALSE) /\ idx[p] < filter.k
        /\ pc[q] = "lock" /\ mtx = 0

\* C18: once EstimateFalsePositiveRate has returned the filter is empty: no
\* bit is set, so that Test(x) is false for every key x, the synthetic keys
\* it inserted included.
C18_EstimateLeavesEmpty ==
    epc = "done" =>
        /\ bits = {}
        /\ \A x \in KeyIds : ~(KeyLocs(x) \subseteq bits)

\* The bit array that holds exactly the n synthetic keys 0 .. n-1, and the
\* test keys n+1 .. n+Rounds that test positive against it.
InsertedBits(n) == UNION {KeyLocs(EstKey(v)) : v \in 0 .. (n - 1)}
Positives(n) ==
    {v \in (n + 1) .. (n + Rounds) : KeyLocs(EstKey(v)) \subseteq InsertedBits(n)}

\* C19: the rate EstimateFalsePositiveRate(n) returns is P / rounds, with P
\* the number of test keys that test positive against the filter holding
\* exactly the n inserted keys.
C19_EstimateExact ==
    fpRate # <<>> => fpRate = <<Cardinality(Positives(estN)), Rounds>>

\* C20: with either remote binding, a Test or TestAndAdd whose script was
\* answered by a reply that is neither an integer nor an error returns false
\* with ErrDataType.
C20_DataTypeOnUnexpected ==
    \A p \in DOMAIN pc :
        ( /\ pc[p] = "returned"
          /\ op[p] \in {"TestAll", "TestAddAll"}
          /\ reply[p].kind \in {"bulk", "status", "nil", "array"} )
        => ret[p] = Fail("ErrDataType")

\* The results that stand for an absent value: nil, "" and the empty slice.
AbsentVals == { NoVal, Val("string", <<>>), Val("bytes", <<>>) }

\* The last call that returned got to the entries of the cache and its
\* connection did not fail: the cache has a client, the command was run and
\* its reply read.
Answered == cres.ran /\ cres.ret.err # "io"

\* C21: on every cache backend, Get and every typed getter on a key that
\* holds no entry (never set, deleted with Del, or removed by expiry) return
\* an absent value and a nil error.
C21_MissingKeyAbsent ==
    (cres.op \in Getters /\ Answered /\ ~cres.found.has)
    => (cres.ret.err = "nil" /\ cres.ret.val \in AbsentVals)

\* A typed getter has returned nil for a key that was written, never deleted,
\* and removed by expiry.
C21_Witness ==
    /\ cres.op = "GetInt" /\ Answered /\ ~cres.found.has
    /\ clast[cres.key].has
    /\ cres.ret = CRet(NoVal, "nil")

\* What Get returns for a value v written to backend b: the value itself from
\* the local map, the text it was written to Redis as otherwise (a string from
\* go-redis, a byte slice from redigo).
GetValue(b, v) ==
    CASE b = "local" -> v
      [] b = "goredis" -> Val("string", ArgText(v))
      [] OTHER -> Val("bytes", ArgText(v))

\* The last call that returned was a Get that found the entry of its key, and
\* the entry was stored by the last write of the key, which has not been
\* deleted or written since.
GetAfterWrite ==
    /\ cres.op = "Get" /\ Answered /\ cres.found.has
    /\ clast[cres.key].has /\ clast[cres.key].id = cres.wid

\* C22 as stated: after a Set or SetWithExpire that returned without error,
\* Get returns the value last written to the key, on every backend.
C22_GetReturnsWritten ==
    (GetAfterWrite /\ clast[cres.key].err = "nil")
    => cres.ret = CRet(clast[cres.key].val, "nil")

\* C22 (amended): after a Set or SetWithExpire of v that has written the
\* entry (it returned no error or, through go-redis, redis.Nil), and before
\* the entry is removed or deleted, Get returns v from the local cache and the
\* text v was written as from the remote caches (a string from go-redis, a
\* byte slice from redigo), whatever is done to other keys.
C22_RoundTrip ==
    (GetAfterWrite /\ clast[cres.key].err \in {"nil", "redis.Nil"})
    => cres.ret = CRet(GetValue(ccfg.backend, clast[cres.key].val), "nil")

C22_Witness ==
    /\ GetAfterWrite
    /\ ccfg.backend = "goredis"
    /\ clast[cres.key].err = "redis.Nil"
    /\ clast[cres.key].val = Val("int", <<"3">>)
    /\ cres.ret = CRet(Val("string", <<"3">>), "nil")
    /\ \E k \in CacheKeys : k # cres.key /\ clast[k].has /\ clast[k].val = Val("string", TextAbc)

\* C23: a getter that gets to the key's entry after its expiry time has passed
\* returns an absent value and a nil error, never the value stored, on the local
\* cache as well and before its next sweep.
C23_AbsentAfterExpiry ==
    (cres.op \in Getters /\ Answered /\ cres.found.at # NoTime /\ cres.at > cres.found.at)
    => (cres.ret.err = "nil" /\ cres.ret.val \in AbsentVals)

\* The last thing done to key k was a read that found its entry, written
\* with a TTL that is not 0.
LastRead(k) == clast[k].has /\ clast[k].read /\ clast[k].ttl # 0

\* C24: a getter that finds an entry with a non-zero TTL t moves its expiry
\* time to at least t seconds after the time it read the entry at, so until
\* t seconds have passed since the last read the entry is still there,
\* however old it is.
C24_SlidingExpiry ==
    \A k \in DOMAIN clast :
        (LastRead(k) /\ now <= clast[k].touch + clast[k].ttl)
        => (/\ cstore[k].has
            /\ cstore[k].at >= clast[k].touch + clast[k].ttl)

\* An entry of TTL 3 whose last read has returned and which has outlived the
\* expiry time it had before that read.
C24_Witness ==
    /\ cres.op = "Get" /\ Answered /\ cres.found.has /\ cres.found.exp = 3
    /\ LastRead(cres.key) /\ clast[cres.key].touch = cres.at
    /\ cres.found.at < now /\ now <= cres.at + 3
    /\ cstore[cres.key].has

\* C25: an entry whose last write had expireSec 0 (Set on a cache without a
\* default expiry, or SetWithExpire with 0) is not removed by time or by the
\* sweeper: it is there until Del or another write.
C25_NoExpiryWithZero ==
    \A k \in DOMAIN clast : (clast[k].has /\ clast[k].ttl = 0) => cstore[k].has

\* The key's last write had a TTL that is not 0 and not the cache's default,
\* which is a SetWithExpire, as Set writes with the default.
OwnTTL(k) == clast[k].has /\ clast[k].ttl # 0 /\ clast[k].ttl # ccfg.expireSec

\* The TTL of key k's last write and its largest jitter have passed since the
\* clock was read by the last Set or Get of the key.
Outlived(k) == now > clast[k].touch + clast[k].ttl + (clast[k].ttl \div 10)

\* This step is a scan of the sweeper.
Scanned == sweepAt # NoTime /\ sweepAt' = NoTime

\* C26: an entry written by SetWithExpire(key, v, t) with t other than the
\* default d (and not 0) lives by t.  Until t seconds have passed since the
\* last Set or Get of the key read the clock it is there; once t seconds and
\* the largest jitter have passed without a read, it is gone from Redis, and
\* gone from the local cache after the sweep that follows.
C26_OwnTTL ==
    /\ [](\A k \in DOMAIN clast :
             OwnTTL(k) =>
                /\ now <= clast[k].touch + clast[k].ttl => cstore[k].has
                /\ (ccfg.backend # "local" /\ Outlived(k)) => ~cstore[k].has)
    /\ [][\A k \in DOMAIN clast :
             (OwnTTL(k) /\ Outlived(k) /\ Scanned) => ~cstore'[k].has]_vars

\* On a local cache of default 10, an entry of TTL 3 written at time 0 was
\* read at time 3 and is gone at time 8, after a sweep.
C26_Witness ==
    /\ ccfg = [backend |-> "local", client |-> "client", expireSec |-> 10]
    /\ OwnTTL(1) /\ clast[1].ttl = 3
    /\ cres.op = "Get" /\ cres.found.has /\ cres.found.at = 3 /\ cres.at = 3
    /\ cres.ret = CRet(Val("int", <<"3">>), "nil")
    /\ now = 8 /\ ~cstore[1].has

\* Values that are no integer, no float and no boolean: the text abc, as a
\* string and as a byte slice.
Unconvertible == { Val("string", TextAbc), Val("bytes", TextAbc) }

\* C27: GetInt, GetFloat and GetBool on an entry whose value cannot be
\* converted return ErrDataType and no value, on every backend.
C27_DataTypeError ==
    (/\ cres.op \in {"GetInt", "GetFloat", "GetBool"}
     /\ Answered /\ cres.found.has
     /\ clast[cres.key].has /\ clast[cres.key].id = cres.wid
     /\ clast[cres.key].val \in Unconvertible)
    => cres.ret = CRet(NoVal, "ErrDataType")

\* The uint64 of an integer below 2^31.
Norm64(x) == MulSmall64(1, U64(x))

\* math.Log(2), math.Pow(math.Log(2), 2) and -math.Log(p) in units of 10^-8,
\* each as the pair of integers it lies between.
Ln2Bounds == <<69314718, 69314719>>
Ln2SqBounds == <<48045301, 48045302>>
LnInvBounds(p) == CASE p = "0.01" -> <<460517018, 460517019>>

\* m = ceil(-n * ln(p) / (ln 2)^2): m - 1 is below the quotient and m is
\* not, for m below 2^15.
IsEstimatedM(n, p, m) ==
    /\ Lt64(MulSmall64(m - 1, Norm64(Ln2SqBounds[2])), MulSmall64(n, Norm64(LnInvBounds(p)[1])))
    /\ ~Lt64(MulSmall64(m, Norm64(Ln2SqBounds[1])), MulSmall64(n, Norm64(LnInvBounds(p)[2])))

\* k = ceil(ln(2) * m / n), for m below 2^15.
IsEstimatedK(n, m, k) ==
    /\ Lt64(MulSmall64((k - 1) * n, Norm64(100000000)), MulSmall64(m, Norm64(Ln2Bounds[1])))
    /\ ~Lt64(MulSmall64(k * n, Norm64(100000000)), MulSmall64(m, Norm64(Ln2Bounds[2])))

\* The filter was built by a WithEstimates constructor from (1000, 0.01).
Estimated1000 == sin # NoInput /\ sin.est /\ sin.n = 1000 /\ sin.p = "0.01"

\* The estimates follow the two formulas.
EstimatesByFormula ==
    /\ sin.m[2] = 0 /\ sin.m[3] = 0 /\ sin.m[4] = 0
    /\ IsEstimatedM(sin.n, sin.p, sin.m[1])
    /\ IsEstimatedK(sin.n, sin.m[1], sin.k)

\* C28 as stated: EstimateParameters(1000, 0.01) follows the formulas and
\* gives m within rounding of 6235 and k within rounding of 5.
C28_About6235 ==
    Estimated1000 =>
        /\ EstimatesByFormula
        /\ ~Lt64(sin.m, U64(6234)) /\ ~Lt64(U64(6236), sin.m)
        /\ sin.k \in 4 .. 6

\* C28 (amended): EstimateParameters(1000, 0.01) returns
\* m = ceil(-n * ln(p) / (ln 2)^2) and k = ceil(ln(2) * m / n), which are
\* m = 9586 and k = 7, and a filter built from them reports Cap() = 9586 and
\* K() = 7.
C28_Estimate9586 ==
    Estimated1000 =>
        /\ EstimatesByFormula
        /\ sin.m = U64(9586) /\ sin.k = 7
        /\ \A p \in DOMAIN pc :
              /\ Returned(p, "M") => size[p] = U64(9586)
              /\ Returned(p, "K") => size[p] = U64(7)

C28_Witness ==
    /\ Estimated1000
    /\ \E p, q \in DOMAIN pc :
          /\ Returned(p, "M") /\ size[p] = U64(9586)
          /\ Returned(q, "K") /\ size[q] = U64(7)

\* The goroutines of EstimateFalsePositiveRate whose f.Add or f.Test has been
\* started and has not returned, and those that hold a slot of concChan.
Outstanding == { w \in EstWorkers : worker[w].stage = "go" }
HoldingSlot == { w \in EstWorkers : worker[w].stage \in {"go", "recv"} }

\* C30: at every moment of EstimateFalsePositiveRate the Add and Test
\* operations started and not finished are no more than the capacity of
\* concChan: each goroutine's slot is taken before it starts and given back
\* after its operation has returned.
C30_BoundedConcurrency ==
    /\ Cardinality(Outstanding) <= ConcCap
    /\ Cardinality(HoldingSlot) = concChan
    /\ concChan <= ConcCap

\* The channel is full in the test phase, with every slot held by a Test in
\* progress and keys still to be tested.
C30_Witness ==
    /\ epc = "tests" /\ ei < Rounds
    /\ concChan = ConcCap
    /\ Cardinality(Outstanding) = ConcCap
    /\ \A w \in Outstanding : pc[w] # "idle" /\ op[w] = "TestAll"

\* The goroutines of the insert loop and of the test loop that have been
\* started, and whether goroutine w has finished (its wg.Done() is done).
AddWorkers == { w \in EstWorkers : worker[w].op = "SetAll" }
TestWorkers == { w \in EstWorkers : worker[w].op = "TestAll" }
Exited(w) == worker[w].stage = "exit"

\* C31: in EstimateFalsePositiveRate the first ClearAll has returned before
\* any Add starts, every one of the n Adds has finished before any Test
\* starts, and the rate is computed and the last ClearAll begun only when all
\* the Tests have finished; an Add and a Test are never in progress together.
C31_PhaseOrdering ==
    /\ epc = "clear" => AddWorkers \cup TestWorkers = {}
    /\ TestWorkers # {} =>
          /\ Cardinality(AddWorkers) = estN
          /\ \A w \in AddWorkers : Exited(w)
    /\ (epc \in {"clear2", "done"} \/ fpRate # <<>>) =>
          /\ Cardinality(TestWorkers) = Rounds
          /\ \A w \in AddWorkers \cup TestWorkers : Exited(w)
    /\ epc \in {"clear", "adds"} => fpRate = <<>>
    /\ pc[EstMain] # "idle" => \A w \in AddWorkers \cup TestWorkers : Exited(w)

\* Two Adds have finished and a Test is in progress.
C31_Witness ==
    /\ epc = "tests" /\ estN = 2
    /\ Cardinality(AddWorkers) = 2 /\ \A w \in AddWorkers : Exited(w)
    /\ \E w \in TestWorkers : worker[w].stage = "go" /\ pc[w] # "idle"

\* C32: under fair scheduling EstimateFalsePositiveRate returns, for every n
\* and every backend whose operations return: in the end the call is done,
\* the channel is empty and the wait group is at zero, every goroutine having
\* received from the channel and called wg.Done() once.
C32_Terminates ==
    <>[](/\ epc = "done" /\ fpRate # <<>>
         /\ concChan = 0 /\ wg = 0
         /\ \A w \in EstWorkers : worker[w].stage \in {"none", "exit"})

\* The call has returned after 2 Adds and all the Tests, which filled the
\* channel on the way.
C32_Witness ==
    /\ epc = "done" /\ estN = 2 /\ fpRate # <<>>
    /\ concChan = 0 /\ wg = 0
    /\ Cardinality({ w \in EstWorkers : worker[w].stage = "exit" }) = 2 + Rounds

\* C33: for every n, no key tested by the second loop of
\* EstimateFalsePositiveRate is a key inserted by the first, the keys being
\* computed in uint32 arithmetic.
C33_DisjointKeys ==
    (kadd # <<>> /\ ktest # <<>>) => kadd[2] # ktest[2]

\* The bits of the keys added since the last ClearAll, by the location scheme.
SinceLocs == UNION {ModLocs(x) : x \in since}

\* The bits of the key whose Add or TestAndAdd holds the mutex, in its loop.
LoopLocs == IF mtx # 0 /\ op[mtx] \in Mutators THEN ModLocs(key[mtx]) ELSE {}

\* C34: in every state the bits that are 1 are the bits location(h(x), i) mod m,
\* i in [0, k), of the keys x whose Add or TestAndAdd took effect since the
\* last ClearAll did (while one of them runs its loop under the mutex, those
\* and a part of its own), and every one of them is below m.
C34_BitArrayInvariant ==
    /\ \A l \in bits : Lt64(l, filter.m)
    /\ SinceLocs \subseteq bits
    /\ bits \subseteq SinceLocs \cup LoopLocs

\* The calls of c.Close() among the connection events t.
Closes(t) == {i \in DOMAIN t : t[i] = "close"}

\* No event of t comes after a c.Close().
NoUseAfterClose(t) == \A i \in Closes(t) : i = Len(t)

\* C35: a RedigoBloom SetAll, TestAll, TestAddAll or ClearAll that got a
\* connection from the getter holds it open while its command runs, and has
\* closed it exactly once when it returns, on every path (script error,
\* transport error, result true, result false), with no use after the close;
\* a call that got no connection closes none.
C35_ConnClosedOnce ==
    \A p \in DOMAIN pc :
        (filter.backend = "redigo" /\ op[p] \in {"SetAll", "TestAll", "TestAddAll", "ClearAll"})
        => /\ pc[p] \in {"sent", "reply"} => conn[p] = <<"get">>
           /\ pc[p] = "returned"
              => /\ NoUseAfterClose(conn[p])
                 /\ Cardinality(Closes(conn[p])) = IF filter.handle = "conn" THEN 1 ELSE 0

\* One TestAll or TestAddAll has returned on its error path and another on its
\* path of result true, each with its connection closed after its command.
C35_Witness ==
    /\ filter.backend = "redigo"
    /\ \E p \in DOMAIN pc :
        /\ pc[p] = "returned" /\ op[p] \in {"TestAll", "TestAddAll"}
        /\ ret[p].err # "nil" /\ conn[p] = <<"get", "do", "close">>
    /\ \E p \in DOMAIN pc :
        /\ pc[p] = "returned" /\ op[p] \in {"TestAll", "TestAddAll"}
        /\ ret[p].err = "nil" /\ ret[p].val /\ conn[p] = <<"get", "do", "close">>

\* C36: RedigoCache.Set, SetWithExpire, Get and Del close every connection
\* they get from the getter before they return: after any number of cache
\* operations the cache holds no connection open.
C36_NoConnHeld == (\A p \in DOMAIN gpc : gpc[p] = "idle") => copen = 0

\* C37: no two goroutines are inside the shared random source c.r at the same
\* time, and every goroutine that reads or writes the entry map or an
\* entry's expireTime (a caller past c.m.Lock(), the sweeper in its loop over
\* c.cache) holds the cache mutex.
C37_NoDataRace ==
    /\ \A p, q \in DOMAIN gpc : (p # q /\ InRand(p)) => ~InRand(q)
    /\ \A p \in DOMAIN gpc : gpc[p] \in {"held", "lrand"} => cm = p
    /\ spc = "scan" => cm = Sweeper

\* The numbers of the entries expireFn has been called for, and of the
\* entries the sweeper has deleted.
NotifiedIds == {notified[i].id : i \in DOMAIN notified}
SweptIds == {x.id : x \in swept}

\* C38: every call of expireFn is for an entry the sweeper has deleted after
\* its expireTime had passed, with that entry's key and value, made after the
\* deletion and without the mutex; no entry deleted by Del, no entry with
\* expireSec 0 and no entry twice; and once a sweep is over expireFn has been
\* called for every entry the sweeper has deleted.
C38_NotifiedOnce ==
    /\ \A i \in DOMAIN notified :
          /\ \E x \in swept :
                /\ x.k = notified[i].k /\ x.v = notified[i].v /\ x.id = notified[i].id
                /\ x.exp # 0 /\ x.at # NoTime /\ x.t > x.at
          /\ ~notified[i].held
          /\ notified[i].id \notin erased
          /\ ~(cstore[notified[i].k].has /\ eid[notified[i].k] = notified[i].id)
          /\ \A j \in DOMAIN notified : j # i => notified[j].id # notified[i].id
    /\ (expireFn = "fn" /\ spc \in {"wait", "exit"}) => NotifiedIds = SweptIds

\* One sweep has deleted two entries with different values, reading the clock
\* at different times for them, and expireFn has been called for both.
C38_Witness ==
    /\ spc = "notify" /\ Len(tmpDel) = 2 /\ ti = 3 /\ Len(notified) = 2
    /\ notified[1].v # notified[2].v /\ notified[1].k # notified[2].k
    /\ \E x, y \in swept : x.k # y.k /\ x.t # y.t

\* C39: once the context is cancelled the goroutine of runExpireCheck ends,
\* and from then on it deletes no entry and calls no expireFn; a sweep begins
\* no sooner than one timer period after the sweep before it ended (after the
\* goroutine began, for the first), and while the context is not cancelled a
\* timer that has fired is followed by a sweep.
C39_SweeperShutdown ==
    /\ cancelled ~> (spc = "exit" \/ Crashed)
    /\ [][spc = "exit" => (spc' = "exit" /\ swept' = swept /\ notified' = notified)]_vars
    /\ [][(spc = "wait" /\ spc' = "lock") => now >= sweepEnd + SweepPeriod(ccfg.expireSec)]_vars
    /\ (spc = "wait" /\ now >= sweepAt /\ ~cancelled) ~> (spc = "lock" \/ cancelled \/ Crashed)

\* The sweeper has swept an expired entry, and has ended after the context
\* was cancelled.
C39_Witness == spc = "exit" /\ cancelled /\ swept # {}

================================================================================
